---- MODULE Spec2Model ----
(***************************************************************************)
(* A model of share-file.online's transfer engine:                         *)
(*   - SignalingService (src/src/services/signaling.js), the rendezvous    *)
(*     client on the broadcast bus;                                        *)
(*   - PeerClient (src/src/webrtc/peerClient.js): signal codec, heartbeat, *)
(*     file frames;                                                        *)
(*   - the application's transfer logic (src/unnamed/part_000): outgoing   *)
(*     queue, doSendFile, sendFileChunks, onPeerData, cancellation.        *)
(* Each component has its own specification (SpecBus, SpecHb, ...) over    *)
(* its own variables; the variables of the other components keep their     *)
(* constructed values.                                                     *)
(***************************************************************************)
EXTENDS Integers, Sequences, FiniteSets, TLC

VARIABLES
  \* ---- SignalingService (signaling.js) ----
  channel,        \* this.channel: "null" or the room the channel was made for
  roomId,         \* this.roomId: "null" or a room
  isConnected,    \* this.isConnected
  lastErrorAt,    \* this._lastErrorAt (ms)
  lastErrorMsg,   \* this._lastErrorMsg
  sigNow,         \* Date.now() (ms)
  sigInflight,    \* channel.send() calls awaiting the bus's answer
  onMessageLog,   \* every (senderId, dataStr) handed to onMessage
  selfSeen,       \* the bus has delivered a packet carrying our own client id
  onErrorLast,    \* the last error handed to onError: <<msg, at>> or <<>>
  onErrorPrev,    \* the onError call before the last one: <<msg, at>>, or <<>> when there
                  \* is none within ERROR_WINDOW_MS
  sigEvent,       \* what the last handler did with a payload: "none" unless it was send
  onOpenSeen,     \* onOpen has been invoked for the current channel
  \* ---- PeerClient: control channel and heartbeat (peerClient.js) ----
  dcState,            \* readyState of this.dc: "null", "connecting", "open", "closed"
  hbTimer,            \* this._hbTimer is set
  hbNextAt,           \* when the heartbeat interval fires next (ms)
  peerTimedOut,       \* this._peerTimedOut
  lastPeerActivityAt, \* this._lastPeerActivityAt (ms)
  hbNow,              \* nowMs()
  remoteCaps,         \* this.remoteCaps: "null", "striping", "plain"
  status,             \* the last status handed to onStatusChange
  hbEvent,            \* the handler that ran last
  emitted,            \* the statuses the last handler handed to onStatusChange
  ctrlSent,           \* the control messages the last handler sent
  ctrlFirst,          \* the first message sent on this.dc since it was made, or "null"
  \* ---- PeerClient: the signal codec (peerClient.js) ----
  webrtcConfig,       \* the shared runtime configuration
  cdHasComp,          \* hasStreamCompression() in this browser
  cdPhase,            \* "idle", "encoded", "encode-failed", "decoded", "foreign"
  cdDesc,             \* the description handed to encodeSignal
  cdGzipOk,           \* the compression stream of the last encodeSignal worked
  cdEmbedded,         \* the {t, s, c} object encodeSignal serialised
  cdCode,             \* the code produced by encodeSignal or pasted by the user
  cdOut,              \* what decodeSignal returned or threw
  \* ---- the browser (navigator, RTCPeerConnection.sctp) ----
  deviceMemory,         \* navigator.deviceMemory in GB, 0 when not reported
  hardwareConcurrency,  \* navigator.hardwareConcurrency, 0 when not reported
  maxMessageSize,       \* peer.pc.sctp.maxMessageSize, 0 when not reported
  fileFrames,           \* per staged file: the frames its size makes, 0 for an empty file
  \* ---- the application, sending (part_000) ----
  stagedFiles,          \* keys of the stagedFiles map
  outgoingQueue,        \* ids of the jobs in outgoingQueue, in order
  outgoingQueuedIds,
  outgoingRunning,
  outgoingCancelledIds,
  outgoingTransfers,    \* per id: "none", or the entry's metaSent as "meta-unsent" / "meta-sent"
  fileAcceptWaiters,    \* keys of the map
  fileAcceptEarly,
  fileDoneWaiters,      \* keys of the map
  sendClosure,          \* per id: the locals of the pending doSendFile(id) call
  fileTxChannels,       \* open file channels under peer.fileTxId
  wireOwner,            \* the id of the last file-meta put on the control channel
  sentFiles,            \* ids whose sendFileChunks put its last frame on the wire
  \* ---- the application, receiving (part_000) ----
  incomingFiles,        \* keys of the incomingFiles map
  receiving,            \* peer.receiving: "null" or the id of its state object
  receivedFiles,        \* keys of the receivedFiles map
  incoming,             \* per id: the state object made by file-meta
  acceptPending,        \* ids whose acceptFile call awaits the save-file picker
  chunkAwait,           \* NoAwait or <<id, "flush" | "close">>: the await the file-chunk branch is parked at
  pendingUiOps,         \* ids whose completion UI operation is deferred
  fileRxChannels,       \* the open file channels the peer created: 0 is the base
                        \* channel of its stream id, i > 0 the stripe base:i
  \* ---- what the last handler did ----
  wireOut,              \* control messages and frames it sent, in order
  settled,              \* the enqueueOutgoingFile promises it settled: <<id, outcome>>
  \* ---- PeerClient: the file channel registry (peerClient.js) ----
  fileChannels,         \* this.fileChannels: per stream id NoDc or an index into dcs
  dcs,                  \* the file data channels made so far: label, readyState and
                        \* whether a close event awaits dispatch
  \* ---- the handshake over the signaling channel (part_000) ----
  hsRole,               \* "none", or the isSender of setupSignalingHandlers as "sender" / "receiver"
  lastOffer,            \* the closure's lastOffer
  lastAnswer,           \* the closure's lastAnswer
  hsDecoding,           \* codes whose peer.decodeSignal the onMessage handler awaits
  hsPeerCalls,          \* codes handed to peer.applyAnswer (sender) or peer.createAnswer
                        \* (receiver) whose call has not settled
  pcRemote,             \* the remote description set on peer.pc, NoDesc when none
  hsSent,               \* what the last handler handed to signaling.send
  currentOfferSignal,   \* the sender's encoded offer, <<>> until it is made
  \* ---- two peers: what travels between the sending and the receiving app ----
  toRx,                 \* control messages of the sending app the receiving app has not handled
  toTx,                 \* control messages of the receiving app the sending app has not handled
  fileChain,            \* frames written to the file channel that the receiving app's
                        \* file message chain has not handed to onData yet
  lastFrame             \* the frame the last step handed to onData: <<"frame", id, seq>>, or <<>>

sigVars == <<channel, roomId, isConnected, lastErrorAt, lastErrorMsg, sigNow,
             sigInflight, onMessageLog, selfSeen, onErrorLast, onOpenSeen,
             onErrorPrev, sigEvent>>

hbVars == <<dcState, hbTimer, hbNextAt, peerTimedOut, lastPeerActivityAt, hbNow,
            remoteCaps, status, hbEvent, emitted, ctrlSent, ctrlFirst>>

cdVars == <<webrtcConfig, cdHasComp, cdPhase, cdDesc, cdGzipOk, cdEmbedded,
            cdCode, cdOut>>

appVars == <<deviceMemory, hardwareConcurrency, maxMessageSize, fileFrames,
             stagedFiles, outgoingQueue, outgoingQueuedIds, outgoingRunning,
             outgoingCancelledIds, outgoingTransfers, fileAcceptWaiters,
             fileAcceptEarly, fileDoneWaiters, sendClosure, fileTxChannels,
             wireOwner, sentFiles, incomingFiles, receiving, receivedFiles,
             incoming, acceptPending, chunkAwait, pendingUiOps, fileRxChannels,
             wireOut, settled>>

regVars == <<fileChannels, dcs>>

hsVars == <<hsRole, lastOffer, lastAnswer, hsDecoding, hsPeerCalls, pcRemote,
            hsSent, currentOfferSignal>>

linkVars == <<toRx, toTx, fileChain, lastFrame>>

vars == <<sigVars, hbVars, cdVars, appVars, regVars, hsVars, linkVars>>

\* What the handlers of one component leave alone.
othersThanSig == <<hbVars, cdVars, appVars, regVars, hsVars, linkVars>>
othersThanHb == <<sigVars, cdVars, appVars, regVars, hsVars, linkVars>>
othersThanCodec == <<sigVars, hbVars, appVars, regVars, hsVars, linkVars>>
othersThanReg == <<sigVars, hbVars, cdVars, appVars, hsVars, linkVars>>
othersThanHs == <<hbVars, cdVars, appVars, regVars, linkVars>>

(***************************************************************************)
(*                 SignalingService  (signaling.js)                        *)
(***************************************************************************)
Rooms == {"123456", "654321"}
clientId == "me"                      \* makeClientId(): never empty
SenderIds == {clientId, "peer", ""}   \* "" stands for a missing senderId
DataStrs == {"", "join", "signal"}    \* "" stands for a missing dataStr
ERROR_WINDOW_MS == 4000
SigTickMs == 2000
MaxSigTicks == 3
MaxInflight == 1
SendResults == {"ok", "error", "timed out", "throw"}
\* new Error("Realtime Send Failed: " + res)
SendFailedMsg(res) == "Realtime Send Failed: " \o res

SigInit ==
  /\ channel = "null"
  /\ roomId = "null"
  /\ isConnected = FALSE
  /\ lastErrorAt = 0
  /\ lastErrorMsg = ""
  /\ sigNow \in {SigTickMs, 2 * SigTickMs}
  /\ sigInflight = 0
  /\ onMessageLog = {}
  /\ selfSeen = FALSE
  /\ onErrorLast = <<>>
  /\ onOpenSeen = FALSE
  /\ onErrorPrev = <<>>
  /\ sigEvent = "none"

\* emitError(err): rate-limits an error whose message equals the last one.
emitErrorSuppressed(msg) ==
  msg = lastErrorMsg /\ sigNow - lastErrorAt < ERROR_WINDOW_MS

emitError(msg) ==
  IF emitErrorSuppressed(msg)
  THEN UNCHANGED <<lastErrorAt, lastErrorMsg, onErrorLast, onErrorPrev>>
  ELSE /\ lastErrorAt' = sigNow
       /\ lastErrorMsg' = msg
       /\ onErrorLast' = <<msg, sigNow>>
       /\ onErrorPrev' = IF onErrorLast # <<>> /\ sigNow - onErrorLast[2] < ERROR_WINDOW_MS
                         THEN onErrorLast ELSE <<>>

\* What a handler that calls emitError(msg) did with the error.
emitErrorOutcome(msg) == IF emitErrorSuppressed(msg) THEN "suppressed" ELSE "onError"

\* disconnect(): idempotent teardown.
Signaling_disconnect ==
  /\ UNCHANGED othersThanSig
  /\ channel' = "null"
  /\ isConnected' = FALSE
  /\ roomId' = "null"
  /\ onOpenSeen' = FALSE
  /\ sigEvent' = "none"
  /\ UNCHANGED <<lastErrorAt, lastErrorMsg, sigNow, sigInflight, onMessageLog,
                 selfSeen, onErrorLast, onErrorPrev>>

\* connect(roomId): disconnect(), then subscribe a new channel.
Signaling_connect(r) ==
  /\ UNCHANGED othersThanSig
  /\ channel' = r
  /\ roomId' = r
  /\ isConnected' = FALSE
  /\ onOpenSeen' = FALSE
  /\ sigEvent' = "none"
  /\ UNCHANGED <<lastErrorAt, lastErrorMsg, sigNow, sigInflight, onMessageLog,
                 selfSeen, onErrorLast, onErrorPrev>>

BroadcastPasses_NoSelfFilter(senderId, dataStr) ==
  dataStr # ""

\* The broadcast handler's filter: TRUE when the packet reaches onMessage.
BroadcastPasses(senderId, dataStr) ==
  /\ dataStr # ""
  /\ ~(senderId # "" /\ senderId = clientId)

\* .on("broadcast", {event: "msg"}, packet => ...)
Signaling_onBroadcast(senderId, dataStr) ==
  /\ UNCHANGED othersThanSig
  /\ channel # "null"
  /\ selfSeen' = (selfSeen \/ senderId = clientId)
  /\ onMessageLog' = IF BroadcastPasses(senderId, dataStr)
                     THEN onMessageLog \cup {<<senderId, dataStr>>}
                     ELSE onMessageLog
  /\ sigEvent' = "none"
  /\ UNCHANGED <<channel, roomId, isConnected, lastErrorAt, lastErrorMsg, sigNow,
                 sigInflight, onErrorLast, onOpenSeen, onErrorPrev>>

\* .subscribe(status => ...)
Signaling_onSubscribeStatus(st) ==
  /\ UNCHANGED othersThanSig
  /\ channel # "null"
  /\ CASE st = "SUBSCRIBED" ->
            /\ isConnected' = TRUE
            /\ onOpenSeen' = TRUE
            /\ sigEvent' = "none"
            /\ UNCHANGED <<lastErrorAt, lastErrorMsg, onErrorLast, onErrorPrev>>
       [] st = "CHANNEL_ERROR" ->
            /\ isConnected' = FALSE
            /\ emitError("Channel Error")
            /\ sigEvent' = "none"
            /\ UNCHANGED onOpenSeen
       [] st = "TIMED_OUT" ->
            /\ isConnected' = FALSE
            /\ emitError("Connection Timed Out")
            /\ sigEvent' = "none"
            /\ UNCHANGED onOpenSeen
       [] OTHER ->   \* "CLOSED"
            /\ isConnected' = FALSE
            /\ sigEvent' = "none"
            /\ UNCHANGED <<lastErrorAt, lastErrorMsg, onErrorLast, onOpenSeen,
                           onErrorPrev>>
  /\ UNCHANGED <<channel, roomId, sigNow, sigInflight, onMessageLog, selfSeen>>

\* send(dataStr), up to the await of channel.send(): a silent return when
\* not connected.
Signaling_send ==
  /\ UNCHANGED othersThanSig
  /\ sigInflight' = IF roomId = "null" \/ channel = "null" \/ ~isConnected
                    THEN sigInflight
                    ELSE sigInflight + 1
  /\ sigInflight' <= MaxInflight
  /\ sigEvent' = IF sigInflight' = sigInflight THEN "returned" ELSE "awaiting"
  /\ UNCHANGED <<channel, roomId, isConnected, lastErrorAt, lastErrorMsg, sigNow,
                 onMessageLog, selfSeen, onErrorLast, onOpenSeen, onErrorPrev>>

\* send(dataStr), after the await: the bus answered res, or the call threw.
Signaling_sendSettled(res) ==
  /\ UNCHANGED othersThanSig
  /\ sigInflight > 0
  /\ sigInflight' = sigInflight - 1
  /\ CASE res = "ok" ->
            /\ sigEvent' = "ok"
            /\ UNCHANGED <<lastErrorAt, lastErrorMsg, onErrorLast, onErrorPrev>>
       [] res = "throw" ->
            /\ emitError("send exception")
            /\ sigEvent' = emitErrorOutcome("send exception")
       [] OTHER ->
            /\ emitError(SendFailedMsg(res))
            /\ sigEvent' = emitErrorOutcome(SendFailedMsg(res))
  /\ UNCHANGED <<channel, roomId, isConnected, sigNow, onMessageLog, selfSeen,
                 onOpenSeen>>

\* Date.now() advances.
SigTick ==
  /\ UNCHANGED othersThanSig
  /\ sigNow < (MaxSigTicks + 1) * SigTickMs
  /\ sigNow' = sigNow + SigTickMs
  /\ onErrorPrev' = IF onErrorPrev # <<>> /\ sigNow' - onErrorPrev[2] < ERROR_WINDOW_MS
                    THEN onErrorPrev ELSE <<>>
  /\ UNCHANGED <<channel, roomId, isConnected, lastErrorAt, lastErrorMsg,
                 sigInflight, onMessageLog, selfSeen, onErrorLast, onOpenSeen,
                 sigEvent>>

SigParked ==
  /\ channel = "null" /\ roomId = "null" /\ isConnected = FALSE
  /\ lastErrorAt = 0 /\ lastErrorMsg = "" /\ sigNow = SigTickMs
  /\ sigInflight = 0 /\ onMessageLog = {} /\ selfSeen = FALSE
  /\ onErrorLast = <<>> /\ onOpenSeen = FALSE
  /\ onErrorPrev = <<>> /\ sigEvent = "none"

SigNext ==
  \/ \E r \in Rooms : Signaling_connect(r)
  \/ Signaling_disconnect
  \/ \E s \in SenderIds, d \in DataStrs : Signaling_onBroadcast(s, d)
  \/ \E st \in {"SUBSCRIBED", "CHANNEL_ERROR", "TIMED_OUT", "CLOSED"} :
        Signaling_onSubscribeStatus(st)
  \/ Signaling_send
  \/ \E res \in SendResults : Signaling_sendSettled(res)
  \/ SigTick

(***************************************************************************)
(*        PeerClient: control channel and heartbeat (peerClient.js)        *)
(***************************************************************************)
HEARTBEAT_INTERVAL_MS == 1200
HEARTBEAT_TIMEOUT_MS == 30000
MaxHbTicks == 29
PcStates == {"connected", "disconnected", "failed", "closed"}
CtrlKinds == {"text", "hb-ping", "hb-pong", "hello"}

HbInit ==
  /\ dcState = "null"
  /\ hbTimer = FALSE
  /\ hbNextAt = 0
  /\ peerTimedOut = FALSE
  /\ lastPeerActivityAt = 0
  /\ hbNow = HEARTBEAT_INTERVAL_MS
  /\ remoteCaps = "null"
  /\ status = "new"
  /\ hbEvent = "constructor"
  /\ emitted = <<>>
  /\ ctrlSent = <<>>
  /\ ctrlFirst = "null"

HbParked == HbInit

\* What markPeerActivity() leaves in (_lastPeerActivityAt, _peerTimedOut) and
\* hands to onStatusChange.
markPeerActivity_NoRecover ==
  [at |-> hbNow, timedOut |-> peerTimedOut, emits |-> <<>>]

markPeerActivity ==
  [at |-> hbNow, timedOut |-> FALSE,
   emits |-> IF peerTimedOut THEN <<"connected">> ELSE <<>>]

\* The heartbeat interval's idle check: TRUE when the peer counts as timed out.
hbIdleExpired_AtLeast ==
  hbNow - lastPeerActivityAt >= HEARTBEAT_TIMEOUT_MS

hbIdleExpired ==
  hbNow - lastPeerActivityAt > HEARTBEAT_TIMEOUT_MS

LastOf(seq, dflt) == IF seq = <<>> THEN dflt ELSE seq[Len(seq)]

\* ctrlFirst after a handler that sent the given messages on this.dc.
FirstSent(sent) ==
  IF ctrlFirst = "null" /\ sent # <<>> THEN sent[1] ELSE ctrlFirst

\* setupPC(), then createOffer()'s createDataChannel + setupCtrlDC (offerer) or
\* nothing until ondatachannel (answerer).
setupPC(offerer) ==
  /\ hbTimer' = FALSE                   \* stopHeartbeat()
  /\ peerTimedOut' = FALSE
  /\ remoteCaps' = "null"
  /\ dcState' = IF offerer THEN "connecting" ELSE "null"
  /\ hbEvent' = "setupPC"
  /\ emitted' = <<>>
  /\ ctrlSent' = <<>>
  /\ ctrlFirst' = "null"
  /\ UNCHANGED <<hbNextAt, lastPeerActivityAt, hbNow, status>>

PeerClient_setupPC(offerer) ==
  /\ UNCHANGED othersThanHb
  /\ setupPC(offerer)

\* pc.ondatachannel -> handleDataChannel(dc) for the control label (answerer).
PeerClient_handleDataChannel ==
  /\ UNCHANGED othersThanHb
  /\ dcState = "null"
  /\ hbEvent # "constructor"        \* a pc exists
  /\ dcState' = "connecting"
  /\ hbEvent' = "datachannel"
  /\ emitted' = <<>>
  /\ ctrlSent' = <<>>
  /\ ctrlFirst' = "null"
  /\ UNCHANGED <<hbTimer, hbNextAt, peerTimedOut, lastPeerActivityAt, hbNow,
                 remoteCaps, status>>

\* dc.onopen without its dc.send(hello).
PeerClient_ctrlOnOpen_NoHello ==
  /\ UNCHANGED othersThanHb
  /\ dcState = "connecting"
  /\ dcState' = "open"
  /\ ctrlSent' = <<>>
  /\ ctrlFirst' = FirstSent(ctrlSent')
  /\ lastPeerActivityAt' = hbNow
  /\ peerTimedOut' = FALSE
  /\ hbTimer' = TRUE
  /\ hbNextAt' = hbNow + HEARTBEAT_INTERVAL_MS
  /\ emitted' = markPeerActivity.emits \o <<"connected">>
  /\ status' = "connected"
  /\ hbEvent' = "ctrl-open"
  /\ UNCHANGED <<hbNow, remoteCaps>>

\* dc.onopen of the control channel.
PeerClient_ctrlOnOpen ==
  /\ UNCHANGED othersThanHb
  /\ dcState = "connecting"
  /\ dcState' = "open"
  /\ ctrlSent' = <<"hello">>
  /\ ctrlFirst' = FirstSent(ctrlSent')
  \* markPeerActivity(); startHeartbeat(); onStatusChange("connected")
  /\ lastPeerActivityAt' = hbNow
  /\ peerTimedOut' = FALSE
  /\ hbTimer' = TRUE
  /\ hbNextAt' = hbNow + HEARTBEAT_INTERVAL_MS
  /\ emitted' = markPeerActivity.emits \o <<"connected">>
  /\ status' = "connected"
  /\ hbEvent' = "ctrl-open"
  /\ UNCHANGED <<hbNow, remoteCaps>>

\* dc.onclose of the control channel, inside PeerClient.
ctrlOnClose_peer ==
  /\ dcState \in {"connecting", "open"}
  /\ dcState' = "closed"
  /\ hbTimer' = FALSE                   \* stopHeartbeat()
  /\ peerTimedOut' = FALSE
  /\ emitted' = <<"disconnected">>
  /\ status' = "disconnected"
  /\ hbEvent' = "ctrl-close"
  /\ ctrlSent' = <<>>
  /\ ctrlFirst' = FirstSent(ctrlSent')
  /\ UNCHANGED <<hbNextAt, lastPeerActivityAt, hbNow, remoteCaps>>

\* pc.onconnectionstatechange, inside PeerClient.
onConnectionStateChange_peer(s) ==
  /\ hbEvent # "constructor"
  /\ emitted' = <<s>>
  /\ status' = s
  /\ IF s \in {"failed", "closed"}
     THEN hbTimer' = FALSE /\ peerTimedOut' = FALSE
     ELSE UNCHANGED <<hbTimer, peerTimedOut>>
  /\ hbEvent' = "pc-state"
  /\ ctrlSent' = <<>>
  /\ ctrlFirst' = FirstSent(ctrlSent')
  /\ UNCHANGED <<dcState, hbNextAt, lastPeerActivityAt, hbNow, remoteCaps>>

\* The setInterval callback of startHeartbeat().
PeerClient_heartbeatTick ==
  /\ UNCHANGED othersThanHb
  /\ hbTimer
  /\ hbNow >= hbNextAt
  /\ hbNextAt' = hbNextAt + HEARTBEAT_INTERVAL_MS
  /\ hbEvent' = "hb-timer"
  /\ IF dcState # "open"
     THEN /\ emitted' = <<>>
          /\ ctrlSent' = <<>>
          /\ ctrlFirst' = FirstSent(ctrlSent')
          /\ UNCHANGED <<peerTimedOut, status>>
     ELSE /\ IF hbIdleExpired /\ ~peerTimedOut
             THEN /\ peerTimedOut' = TRUE
                  /\ emitted' = <<"peer-timeout">>
                  /\ status' = "peer-timeout"
             ELSE /\ emitted' = <<>>
                  /\ UNCHANGED <<peerTimedOut, status>>
          /\ ctrlSent' = <<"hb-ping">>
          /\ ctrlFirst' = FirstSent(ctrlSent')
  /\ UNCHANGED <<dcState, hbTimer, lastPeerActivityAt, hbNow, remoteCaps>>

\* handleCtrlMessage(data) for the messages PeerClient answers itself and for
\* text; every branch marks peer activity first.
PeerClient_handleCtrlMessage(kind) ==
  /\ UNCHANGED othersThanHb
  /\ dcState \in {"open", "closed"}
  /\ dcState = "closed" => hbEvent # "setupPC"
  /\ lastPeerActivityAt' = markPeerActivity.at
  /\ peerTimedOut' = markPeerActivity.timedOut
  /\ emitted' = markPeerActivity.emits
  /\ status' = LastOf(markPeerActivity.emits, status)
  /\ ctrlSent' = IF kind = "hb-ping" /\ dcState = "open" THEN <<"hb-pong">> ELSE <<>>
  /\ ctrlFirst' = FirstSent(ctrlSent')
  /\ remoteCaps' = IF kind = "hello" THEN "striping" ELSE remoteCaps
  /\ hbEvent' = "ctrl-message"
  /\ UNCHANGED <<dcState, hbTimer, hbNextAt, hbNow>>

\* handleFileFrame(id, data): a frame shorter than its header, or a string, is
\* dropped before markPeerActivity(); with no incoming transfer the file-chunk
\* is dropped by onPeerData.
PeerClient_handleFileFrame_hb(wellFormed) ==
  /\ UNCHANGED othersThanHb
  /\ dcState \in {"open", "closed"}
  /\ dcState = "closed" => hbEvent # "setupPC"
  /\ IF wellFormed
     THEN /\ lastPeerActivityAt' = markPeerActivity.at
          /\ peerTimedOut' = markPeerActivity.timedOut
          /\ emitted' = markPeerActivity.emits
          /\ status' = LastOf(markPeerActivity.emits, status)
     ELSE /\ emitted' = <<>>
          /\ UNCHANGED <<lastPeerActivityAt, peerTimedOut, status>>
  /\ hbEvent' = IF wellFormed THEN "file-frame" ELSE "bad-frame"
  /\ ctrlSent' = <<>>
  /\ ctrlFirst' = FirstSent(ctrlSent')
  /\ UNCHANGED <<dcState, hbTimer, hbNextAt, hbNow, remoteCaps>>

\* nowMs() advances; a due heartbeat interval fires before time moves on.
HbClock ==
  /\ UNCHANGED othersThanHb
  /\ hbNow < MaxHbTicks * HEARTBEAT_INTERVAL_MS
  /\ ~(hbTimer /\ hbNow >= hbNextAt)
  /\ hbNow' = hbNow + HEARTBEAT_INTERVAL_MS
  /\ UNCHANGED <<dcState, hbTimer, hbNextAt, peerTimedOut, lastPeerActivityAt,
                 remoteCaps, status, hbEvent, emitted, ctrlSent, ctrlFirst>>

(***************************************************************************)
(*              PeerClient: the signal codec (peerClient.js)               *)
(* Strings are sequences of one-character strings; bytes are 0..255.       *)
(***************************************************************************)
AsciiPrintable == <<" ", "!", "\"", "#", "$", "%", "&", "'", "(", ")", "*",
    "+", ",", "-", ".", "/", "0", "1", "2", "3", "4", "5", "6", "7", "8", "9",
    ":", ";", "<", "=", ">", "?", "@", "A", "B", "C", "D", "E", "F", "G", "H",
    "I", "J", "K", "L", "M", "N", "O", "P", "Q", "R", "S", "T", "U", "V", "W",
    "X", "Y", "Z", "[", "\\", "]", "^", "_", "backtick", "a", "b", "c", "d", "e",
    "f", "g", "h", "i", "j", "k", "l", "m", "n", "o", "p", "q", "r", "s", "t",
    "u", "v", "w", "x", "y", "z", "{", "|", "}", "~">>
BASE32_ALPHABET == <<"A", "B", "C", "D", "E", "F", "G", "H", "I", "J", "K",
    "L", "M", "N", "O", "P", "Q", "R", "S", "T", "U", "V", "W", "X", "Y", "Z",
    "2", "3", "4", "5", "6", "7">>
BASE64_ALPHABET == <<"A", "B", "C", "D", "E", "F", "G", "H", "I", "J", "K",
    "L", "M", "N", "O", "P", "Q", "R", "S", "T", "U", "V", "W", "X", "Y", "Z",
    "a", "b", "c", "d", "e", "f", "g", "h", "i", "j", "k", "l", "m", "n", "o",
    "p", "q", "r", "s", "t", "u", "v", "w", "x", "y", "z", "0", "1", "2", "3",
    "4", "5", "6", "7", "8", "9", "+", "/">>
UpperLetters == <<"A", "B", "C", "D", "E", "F", "G", "H", "I", "J", "K", "L",
    "M", "N", "O", "P", "Q", "R", "S", "T", "U", "V", "W", "X", "Y", "Z">>
LowerLetters == <<"a", "b", "c", "d", "e", "f", "g", "h", "i", "j", "k", "l",
    "m", "n", "o", "p", "q", "r", "s", "t", "u", "v", "w", "x", "y", "z">>
SIGNAL_PREFIX_GZIP == <<"S", "H", "R", "1", ":">>
SIGNAL_PREFIX_RAW == <<"S", "H", "R", "0", ":">>
SIGNAL_PREFIX_GZIP_B32 == <<"S", "H", "R", "2", ":">>
SIGNAL_PREFIX_RAW_B32 == <<"S", "H", "R", "3", ":">>
JsonOpenT == <<"{", "\"", "t", "\"", ":">>
JsonKeyS == <<",", "\"", "s", "\"", ":">>
JsonKeyC == <<",", "\"", "c", "\"", ":", "{", "\"", "s", "t", "u", "n", "\"",
    ":">>
JsonKeyUnordered == <<",", "\"", "f", "i", "l", "e", "U", "n", "o", "r", "d",
    "e", "r", "e", "d", "\"", ":">>
JsonKeyFast == <<",", "\"", "f", "a", "s", "t", "\"", ":">>
JsonClose == <<"}", "}">>
TypeOffer == <<"o", "f", "f", "e", "r">>
TypeAnswer == <<"a", "n", "s", "w", "e", "r">>
Whitespace == {"\n", "\r", "\t", " "}

InSeq(seq, x) == \E i \in 1..Len(seq) : seq[i] = x
IndexOf(seq, x) == CHOOSE i \in 1..Len(seq) : seq[i] = x
StartsWith(str, pre) == Len(str) >= Len(pre) /\ SubSeq(str, 1, Len(pre)) = pre
DropFirst(str, n) == SubSeq(str, n + 1, Len(str))
Pow2(n) == 2 ^ n
Failed == [ok |-> FALSE]

\* the concatenation of a sequence of sequences
RECURSIVE Concat(_)
Concat(seqs) ==
  IF Len(seqs) = 0 THEN <<>>
  ELSE IF Len(seqs) = 1 THEN seqs[1]
  ELSE LET h == Len(seqs) \div 2
       IN Concat(SubSeq(seqs, 1, h)) \o Concat(SubSeq(seqs, h + 1, Len(seqs)))

\* ---- the platform: UTF-8 (Blob / Response), JSON, gzip streams, btoa/atob ----
\* A character outside ASCII is the token "e-acute" (two bytes); an
\* undecodable byte sequence becomes the token "U+FFFD".
Utf8OfChar(c) ==
  CASE InSeq(AsciiPrintable, c) -> <<31 + IndexOf(AsciiPrintable, c)>>
    [] c = "\n" -> <<10>>
    [] c = "\r" -> <<13>>
    [] c = "\t" -> <<9>>
    [] c = "e-acute" -> <<195, 169>>
    [] OTHER -> <<239, 191, 189>>

Utf8Encode(str) == Concat([i \in 1..Len(str) |-> Utf8OfChar(str[i])])

\* The character that starts at byte i; nothing where byte i continues a
\* character that started earlier.
Utf8CharAt(bytes, i) ==
  LET b == bytes[i]
      at(k) == IF k >= 1 /\ k <= Len(bytes) THEN bytes[k] ELSE -1
  IN CASE b >= 32 /\ b <= 126 -> <<AsciiPrintable[b - 31]>>
       [] b = 10 -> <<"\n">>
       [] b = 13 -> <<"\r">>
       [] b = 9 -> <<"\t">>
       [] b = 195 /\ at(i + 1) = 169 -> <<"e-acute">>
       [] b = 169 /\ at(i - 1) = 195 -> <<>>
       [] b = 239 /\ at(i + 1) = 191 /\ at(i + 2) = 189 -> <<"U+FFFD">>
       [] b = 191 /\ at(i - 1) = 239 /\ at(i + 1) = 189 -> <<>>
       [] b = 189 /\ at(i - 2) = 239 /\ at(i - 1) = 191 -> <<>>
       [] OTHER -> <<"U+FFFD">>

Utf8Decode(bytes) == Concat([i \in 1..Len(bytes) |-> Utf8CharAt(bytes, i)])

JsonEscapeChar(c) ==
  CASE c = "\"" -> <<"\\", "\"">>
    [] c = "\\" -> <<"\\", "\\">>
    [] c = "\n" -> <<"\\", "n">>
    [] c = "\r" -> <<"\\", "r">>
    [] c = "\t" -> <<"\\", "t">>
    [] c = "lone-surrogate" -> <<"\\", "u", "d", "8", "0", "0">>
    [] OTHER -> <<c>>

JsonEscape(str) == Concat([i \in 1..Len(str) |-> JsonEscapeChar(str[i])])

JsonString(str) == <<"\"">> \o JsonEscape(str) \o <<"\"">>

\* JSON.stringify({t, s, c}) with c = {stun, fileUnordered, fast}, each 0 or 1.
JSONstringify(o) ==
  JsonOpenT \o JsonString(o.t) \o JsonKeyS \o JsonString(o.s)
    \o JsonKeyC \o <<AsciiPrintable[17 + o.c.stun]>>
    \o JsonKeyUnordered \o <<AsciiPrintable[17 + o.c.fileUnordered]>>
    \o JsonKeyFast \o <<AsciiPrintable[17 + o.c.fast]>> \o JsonClose

JsonUnescape(e) ==
  CASE e = "n" -> "\n" [] e = "r" -> "\r" [] e = "t" -> "\t" [] OTHER -> e

JsonExpect(chars, i, lit) ==
  i + Len(lit) - 1 <= Len(chars) /\ SubSeq(chars, i, i + Len(lit) - 1) = lit

\* Reads a JSON string body from position i (after the opening quote).
RECURSIVE JsonReadString(_, _, _)
JsonReadString(chars, i, acc) ==
  IF i > Len(chars) THEN Failed
  ELSE IF chars[i] = "\"" THEN [ok |-> TRUE, val |-> acc, next |-> i + 1]
  ELSE IF chars[i] = "\\" THEN
    IF i + 1 <= Len(chars) /\ chars[i + 1] \in {"\"", "\\", "n", "r", "t"}
    THEN JsonReadString(chars, i + 2, Append(acc, JsonUnescape(chars[i + 1])))
    ELSE IF JsonExpect(chars, i + 1, <<"u", "d", "8", "0", "0">>)
    THEN JsonReadString(chars, i + 6, Append(acc, "lone-surrogate"))
    ELSE Failed
  ELSE IF chars[i] \in {"\n", "\r", "\t"} THEN Failed
  ELSE JsonReadString(chars, i + 1, Append(acc, chars[i]))

JsonReadQuoted(chars, i) ==
  IF i <= Len(chars) /\ chars[i] = "\"" THEN JsonReadString(chars, i + 1, <<>>)
  ELSE Failed

JsonReadBit(chars, i) ==
  IF i <= Len(chars) /\ chars[i] \in {"0", "1"}
  THEN [ok |-> TRUE, val |-> IF chars[i] = "1" THEN 1 ELSE 0, next |-> i + 1]
  ELSE Failed

\* JSON.parse on a text of the shape JSON.stringify produces above; any other
\* text counts as a parse failure.
JSONparse(chars) ==
  IF ~JsonExpect(chars, 1, JsonOpenT) THEN Failed ELSE
  LET t == JsonReadQuoted(chars, Len(JsonOpenT) + 1) IN
  IF ~t.ok \/ ~JsonExpect(chars, t.next, JsonKeyS) THEN Failed ELSE
  LET sd == JsonReadQuoted(chars, t.next + Len(JsonKeyS)) IN
  IF ~sd.ok \/ ~JsonExpect(chars, sd.next, JsonKeyC) THEN Failed ELSE
  LET c1 == JsonReadBit(chars, sd.next + Len(JsonKeyC)) IN
  IF ~c1.ok \/ ~JsonExpect(chars, c1.next, JsonKeyUnordered) THEN Failed ELSE
  LET c2 == JsonReadBit(chars, c1.next + Len(JsonKeyUnordered)) IN
  IF ~c2.ok \/ ~JsonExpect(chars, c2.next, JsonKeyFast) THEN Failed ELSE
  LET c3 == JsonReadBit(chars, c2.next + Len(JsonKeyFast)) IN
  IF ~c3.ok \/ ~JsonExpect(chars, c3.next, JsonClose)
     \/ c3.next + Len(JsonClose) - 1 # Len(chars) THEN Failed ELSE
  [ok |-> TRUE,
   val |-> [t |-> t.val, s |-> sd.val,
            c |-> [stun |-> c1.val, fileUnordered |-> c2.val, fast |-> c3.val]]]

\* CompressionStream("gzip") / DecompressionStream("gzip"): a framed,
\* invertible transform that rejects bytes it did not produce.
GZIP_MAGIC == <<31, 139>>
gzip(bytes) ==
  GZIP_MAGIC \o [i \in 1..Len(bytes) |-> 255 - bytes[i]] \o <<Len(bytes) % 256>>

gunzip(bytes) ==
  IF /\ Len(bytes) >= 3
     /\ SubSeq(bytes, 1, 2) = GZIP_MAGIC
     /\ bytes[Len(bytes)] = (Len(bytes) - 3) % 256
  THEN [ok |-> TRUE, val |-> [i \in 1..(Len(bytes) - 3) |-> 255 - bytes[i + 2]]]
  ELSE Failed

\* btoa(): standard base64 with "=" padding.
RECURSIVE btoa(_)
btoa(bytes) ==
  LET ch(v) == BASE64_ALPHABET[v + 1] IN
  IF bytes = <<>> THEN <<>>
  ELSE IF Len(bytes) = 1 THEN
    <<ch(bytes[1] \div 4), ch((bytes[1] % 4) * 16), "=", "=">>
  ELSE IF Len(bytes) = 2 THEN
    <<ch(bytes[1] \div 4), ch((bytes[1] % 4) * 16 + bytes[2] \div 16),
      ch((bytes[2] % 16) * 4), "=">>
  ELSE
    <<ch(bytes[1] \div 4), ch((bytes[1] % 4) * 16 + bytes[2] \div 16),
      ch((bytes[2] % 16) * 4 + bytes[3] \div 64), ch(bytes[3] % 64)>>
      \o btoa(DropFirst(bytes, 3))

\* atob(): fails on a character outside the alphabet, on a length that is no
\* multiple of 4 and on misplaced padding.
RECURSIVE atobGroups(_)
atobGroups(chars) ==
  IF chars = <<>> THEN [ok |-> TRUE, val |-> <<>>]
  ELSE
    LET g == SubSeq(chars, 1, 4)
        last == Len(chars) = 4
        pad == IF g[4] = "=" THEN (IF g[3] = "=" THEN 2 ELSE 1) ELSE 0
        okChar(c) == InSeq(BASE64_ALPHABET, c)
        v(c) == IF c = "=" THEN 0 ELSE IndexOf(BASE64_ALPHABET, c) - 1
    IN IF ~(okChar(g[1]) /\ okChar(g[2])
            /\ (okChar(g[3]) \/ (last /\ pad = 2))
            /\ (okChar(g[4]) \/ (last /\ pad >= 1)))
       THEN Failed
       ELSE LET b1 == v(g[1]) * 4 + v(g[2]) \div 16
                b2 == (v(g[2]) % 16) * 16 + v(g[3]) \div 4
                b3 == (v(g[3]) % 4) * 64 + v(g[4])
                here == IF pad = 2 THEN <<b1>>
                        ELSE IF pad = 1 THEN <<b1, b2>> ELSE <<b1, b2, b3>>
                rest == atobGroups(DropFirst(chars, 4))
            IN IF rest.ok THEN [ok |-> TRUE, val |-> here \o rest.val] ELSE Failed

atob(chars) == IF Len(chars) % 4 # 0 THEN Failed ELSE atobGroups(chars)

\* ---- peerClient.js ----
\* JavaScript keeps buffer as a 32-bit integer; the codec reads bits 0..12
\* of it only, so the model keeps bits 0..23 (TLC's integers are 32 bits wide).
BufferBits == 24

ShiftIn(buffer, width, v) ==
  (buffer % Pow2(BufferBits - width)) * Pow2(width) + v

RECURSIVE StripTrailing(_, _)
StripTrailing(str, c) ==
  IF str # <<>> /\ str[Len(str)] = c
  THEN StripTrailing(SubSeq(str, 1, Len(str) - 1), c)
  ELSE str

RECURSIVE StripLeadingWs(_)
StripLeadingWs(str) ==
  IF str # <<>> /\ Head(str) \in Whitespace THEN StripLeadingWs(Tail(str)) ELSE str

RECURSIVE StripTrailingWs(_)
StripTrailingWs(str) ==
  IF str # <<>> /\ str[Len(str)] \in Whitespace
  THEN StripTrailingWs(SubSeq(str, 1, Len(str) - 1))
  ELSE str

\* String.prototype.trim()
Trim(str) == StripTrailingWs(StripLeadingWs(str))

\* String.prototype.toUpperCase()
ToUpperCase(str) ==
  [i \in 1..Len(str) |->
     IF InSeq(LowerLetters, str[i])
     THEN UpperLetters[IndexOf(LowerLetters, str[i])]
     ELSE str[i]]

ReplaceChar(str, from, to) ==
  [i \in 1..Len(str) |-> IF str[i] = from THEN to ELSE str[i]]

\* base32EncodeBytes, iteration i of the for loop. On entry bits is
\* (8 * (i - 1)) % 5, at most 4, and the pending low bits of buffer are those
\* of the previous byte; the inner while loop emits one character, and a
\* second one when at least 5 bits remain.
base32EncodeStep(data, i) ==
  LET bits == ((8 * (i - 1)) % 5) + 8
      buffer == ShiftIn(IF i > 1 THEN data[i - 1] ELSE 0, 8, data[i])
      first == BASE32_ALPHABET[((buffer \div Pow2(bits - 5)) % 32) + 1]
  IN IF bits - 5 >= 5
     THEN <<first, BASE32_ALPHABET[((buffer \div Pow2(bits - 10)) % 32) + 1]>>
     ELSE <<first>>

\* base32EncodeBytes, after the loop: if (bits > 0) the last bits, left-aligned.
base32EncodeTail(data) ==
  LET bits == (8 * Len(data)) % 5
  IN IF bits > 0
     THEN <<BASE32_ALPHABET[((data[Len(data)] * Pow2(5 - bits)) % 32) + 1]>>
     ELSE <<>>

\* base32EncodeBytes without the characters of the last bits.
base32EncodeBytes_NoTail(bytes) ==
  Concat([i \in 1..Len(bytes) |-> base32EncodeStep(bytes, i)])

base32EncodeBytes(bytes) ==
  Concat([i \in 1..Len(bytes) |-> base32EncodeStep(bytes, i)]) \o base32EncodeTail(bytes)

\* base32DecodeToBytes, the j-th character that is not white space. On entry
\* bits is (5 * (j - 1)) % 8; the byte pushed, if any, lies within the last
\* three values shifted into buffer.
base32DecodeStep(vals, j) ==
  LET bits == ((5 * (j - 1)) % 8) + 5
      buffer == ShiftIn(ShiftIn(IF j > 2 THEN vals[j - 2] ELSE 0, 5,
                                IF j > 1 THEN vals[j - 1] ELSE 0), 5, vals[j])
  IN IF bits >= 8 THEN <<(buffer \div Pow2(bits - 8)) % 256>> ELSE <<>>

base32DecodeToBytes(input) ==
  LET str == SelectSeq(StripTrailing(ToUpperCase(input), "="),
                       LAMBDA c : c \notin Whitespace)
  IN IF \E i \in 1..Len(str) : ~InSeq(BASE32_ALPHABET, str[i])
     THEN Failed   \* "Invalid base32 character"
     ELSE LET vals == [i \in 1..Len(str) |-> IndexOf(BASE32_ALPHABET, str[i]) - 1]
          IN [ok |-> TRUE,
              val |-> Concat([j \in 1..Len(vals) |-> base32DecodeStep(vals, j)])]

bytesToBase64(bytes) == btoa(bytes)

base64UrlEncodeBytes(bytes) ==
  StripTrailing(ReplaceChar(ReplaceChar(bytesToBase64(bytes), "+", "-"), "/", "_"), "=")

base64UrlDecodeToBytes(b64url) ==
  LET b64 == ReplaceChar(ReplaceChar(b64url, "-", "+"), "_", "/")
      pad == Len(b64) % 4
      padded == IF pad # 0 THEN b64 \o [i \in 1..(4 - pad) |-> "="] ELSE b64
  IN atob(padded)

\* The session descriptions handed to encodeSignal: a type (possibly missing)
\* and a description of up to MaxSdpLen characters, among them characters
\* that JSON escapes, a two-byte character and an unpaired surrogate.
MaxSdpLen == 2
SdpChars == {"\"", "\\", "\n", "e-acute", "lone-surrogate"}
SdpStrings == UNION {[1..n -> SdpChars] : n \in 0..MaxSdpLen}
DescTypes == {TypeOffer, TypeAnswer, <<>>}
Bit(b) == IF b THEN 1 ELSE 0
CodecError(msg) == [kind |-> "error", msg |-> msg]

\* encodeSignal(desc) under the configuration config; gzipWorks says whether
\* the compression stream delivers (the try block) or throws (the catch).
\* The LAN host rewrite of line 729 is off (its default), so sdp = desc.sdp.
encodeSignal(desc, config, hasComp, gzipWorks) ==
  IF desc.type = <<>> \/ desc.sdp = <<>>
  THEN CodecError("Missing session description")
  ELSE
    LET cfg == [stun |-> Bit(config.useStun),
                fileUnordered |-> Bit(config.useUnorderedFileChannel),
                fast |-> Bit(config.useFastTransfer)]
        embedded == [t |-> desc.type, s |-> desc.sdp, c |-> cfg]
        payload == JSONstringify(embedded)
    IN IF config.useSignalCompression /\ hasComp /\ gzipWorks
       THEN [kind |-> "ok", embedded |-> embedded,
             code |-> SIGNAL_PREFIX_GZIP_B32
                        \o base32EncodeBytes(gzip(Utf8Encode(payload)))]
       ELSE [kind |-> "ok", embedded |-> embedded,
             code |-> SIGNAL_PREFIX_RAW_B32
                        \o base32EncodeBytes(Utf8Encode(payload))]

\* new Response(...).json() over the decoded bytes, gunzipped first if gz.
\* A text that is no {t, s, c} object counts as a failed decode.
decodeBody(bytes, gz, failMsg) ==
  IF ~bytes.ok THEN CodecError(failMsg)
  ELSE
    LET raw == IF gz THEN gunzip(bytes.val) ELSE bytes
    IN IF ~raw.ok THEN CodecError("Decompression failed")
       ELSE LET json == JSONparse(Utf8Decode(raw.val))
            IN IF ~json.ok THEN CodecError("JSON parse failed")
               ELSE [kind |-> "ok", type |-> json.val.t, sdp |-> json.val.s,
                     cfg |-> json.val.c]

CantDecompress == CodecError("This browser can't decompress the connection code")

\* decodeSignal that knows the base32 prefixes only.
decodeSignal_NoLegacy(code, hasComp) ==
  LET trimmed == Trim(code) IN
  IF trimmed = <<>> THEN CodecError("Empty code")
  ELSE IF StartsWith(trimmed, SIGNAL_PREFIX_GZIP_B32) THEN
    IF ~hasComp THEN CantDecompress
    ELSE decodeBody(base32DecodeToBytes(DropFirst(trimmed, Len(SIGNAL_PREFIX_GZIP_B32))),
                    TRUE, "Invalid base32 character")
  ELSE IF StartsWith(trimmed, SIGNAL_PREFIX_RAW_B32) THEN
    decodeBody(base32DecodeToBytes(DropFirst(trimmed, Len(SIGNAL_PREFIX_RAW_B32))),
               FALSE, "Invalid base32 character")
  ELSE CodecError("Invalid code format")

decodeSignal(code, hasComp) ==
  LET trimmed == Trim(code) IN
  IF trimmed = <<>> THEN CodecError("Empty code")
  ELSE IF StartsWith(trimmed, SIGNAL_PREFIX_GZIP_B32) THEN
    IF ~hasComp THEN CantDecompress
    ELSE decodeBody(base32DecodeToBytes(DropFirst(trimmed, Len(SIGNAL_PREFIX_GZIP_B32))),
                    TRUE, "Invalid base32 character")
  ELSE IF StartsWith(trimmed, SIGNAL_PREFIX_RAW_B32) THEN
    decodeBody(base32DecodeToBytes(DropFirst(trimmed, Len(SIGNAL_PREFIX_RAW_B32))),
               FALSE, "Invalid base32 character")
  ELSE IF StartsWith(trimmed, SIGNAL_PREFIX_GZIP) THEN
    IF ~hasComp THEN CantDecompress
    ELSE decodeBody(base64UrlDecodeToBytes(DropFirst(trimmed, Len(SIGNAL_PREFIX_GZIP))),
                    TRUE, "InvalidCharacterError")
  ELSE IF StartsWith(trimmed, SIGNAL_PREFIX_RAW) THEN
    decodeBody(base64UrlDecodeToBytes(DropFirst(trimmed, Len(SIGNAL_PREFIX_RAW))),
               FALSE, "InvalidCharacterError")
  ELSE CodecError("Invalid code format")

\* ---- codes a user can paste: written by another client, an older client
\* (base64url), or mistyped ----
SampleEnvelope ==
  [t |-> TypeAnswer, s |-> <<"v", "=", "0", "\r", "\n", "e-acute">>,
   c |-> [stun |-> 1, fileUnordered |-> 0, fast |-> 1]]
SampleBytes == Utf8Encode(JSONstringify(SampleEnvelope))
SampleDecoded ==
  [kind |-> "ok", type |-> SampleEnvelope.t, sdp |-> SampleEnvelope.s,
   cfg |-> SampleEnvelope.c]
ToLowerCase(str) ==
  [i \in 1..Len(str) |->
     IF InSeq(UpperLetters, str[i])
     THEN LowerLetters[IndexOf(UpperLetters, str[i])]
     ELSE str[i]]
\* for each known prefix, the sample envelope as a client emitting that
\* prefix writes it
WellFormedCodes ==
  {SIGNAL_PREFIX_RAW \o base64UrlEncodeBytes(SampleBytes),
   SIGNAL_PREFIX_GZIP \o base64UrlEncodeBytes(gzip(SampleBytes)),
   SIGNAL_PREFIX_RAW_B32 \o base32EncodeBytes(SampleBytes),
   SIGNAL_PREFIX_GZIP_B32 \o base32EncodeBytes(gzip(SampleBytes)),
   SIGNAL_PREFIX_RAW_B32 \o ToLowerCase(base32EncodeBytes(SampleBytes)) \o <<"=", "=">>,
   <<" ", "\n">> \o SIGNAL_PREFIX_GZIP_B32
      \o base32EncodeBytes(gzip(SampleBytes)) \o <<"\n">>}
KnownPrefixes ==
  {SIGNAL_PREFIX_RAW, SIGNAL_PREFIX_GZIP, SIGNAL_PREFIX_RAW_B32, SIGNAL_PREFIX_GZIP_B32}
OtherPrefixes ==
  {<<"S", "H", "R", "4", ":">>, <<"s", "h", "r", "2", ":">>, <<"S", "H", "R", "2">>,
   <<"S", "H", "R", ":">>, <<"x">>, <<>>}
ForeignBodies ==
  {base32EncodeBytes(SampleBytes), base64UrlEncodeBytes(gzip(SampleBytes)),
   base32EncodeBytes(gzip(SampleBytes)), <<"!", "!">>, <<"A", "B">>, <<>>}
ForeignCodes ==
  WellFormedCodes
    \cup {p \o b : p \in KnownPrefixes \cup OtherPrefixes, b \in ForeignBodies}
    \cup {<<" ">> \o p \o b : p \in OtherPrefixes, b \in {<<"A", "B">>}}
    \cup {<<" ", "\n">>}

DefaultConfig(hasComp) ==
  [useStun |-> TRUE, useSignalCompression |-> hasComp,
   useUnorderedFileChannel |-> TRUE, useFastTransfer |-> TRUE]

NoneOut == [kind |-> "none"]
NoEnvelope == [t |-> <<>>, s |-> <<>>, c |-> [stun |-> 0, fileUnordered |-> 0, fast |-> 0]]
NoDesc == [type |-> <<>>, sdp |-> <<>>]

\* module load (lines 20-34) in a browser with or without compression streams
CodecInit ==
  /\ cdHasComp \in BOOLEAN
  /\ webrtcConfig = DefaultConfig(cdHasComp)
  /\ cdPhase = "idle"
  /\ cdDesc = NoDesc
  /\ cdGzipOk = FALSE
  /\ cdEmbedded = NoEnvelope
  /\ cdCode = <<>>
  /\ cdOut = NoneOut

CodecParked ==
  /\ cdHasComp = TRUE
  /\ webrtcConfig = DefaultConfig(TRUE)
  /\ cdPhase = "idle"
  /\ cdDesc = NoDesc
  /\ cdGzipOk = FALSE
  /\ cdEmbedded = NoEnvelope
  /\ cdCode = <<>>
  /\ cdOut = NoneOut

\* The setters of the configuration; settings are applied before a client's
\* handshake starts.
Codec_setUseStun(enabled) ==
  /\ UNCHANGED othersThanCodec
  /\ cdPhase = "idle"
  /\ webrtcConfig' = [webrtcConfig EXCEPT !.useStun = enabled]
  /\ UNCHANGED <<cdHasComp, cdPhase, cdDesc, cdGzipOk, cdEmbedded, cdCode, cdOut>>

Codec_setUseSignalCompression(enabled) ==
  /\ UNCHANGED othersThanCodec
  /\ cdPhase = "idle"
  /\ webrtcConfig' = [webrtcConfig EXCEPT !.useSignalCompression = enabled /\ cdHasComp]
  /\ UNCHANGED <<cdHasComp, cdPhase, cdDesc, cdGzipOk, cdEmbedded, cdCode, cdOut>>

Codec_setUseFileUnordered(enabled) ==
  /\ UNCHANGED othersThanCodec
  /\ cdPhase = "idle"
  /\ webrtcConfig' = [webrtcConfig EXCEPT !.useUnorderedFileChannel = enabled]
  /\ UNCHANGED <<cdHasComp, cdPhase, cdDesc, cdGzipOk, cdEmbedded, cdCode, cdOut>>

Codec_setUseFastTransfer(enabled) ==
  /\ UNCHANGED othersThanCodec
  /\ cdPhase = "idle"
  /\ webrtcConfig' = [webrtcConfig EXCEPT !.useFastTransfer = enabled]
  /\ UNCHANGED <<cdHasComp, cdPhase, cdDesc, cdGzipOk, cdEmbedded, cdCode, cdOut>>

\* createOffer / createAnswer reach encodeSignal(this.pc.localDescription).
Codec_encodeSignal(desc, gzipWorks) ==
  /\ UNCHANGED othersThanCodec
  /\ cdPhase = "idle"
  /\ LET r == encodeSignal(desc, webrtcConfig, cdHasComp, gzipWorks) IN
       /\ cdDesc' = desc
       /\ cdGzipOk' = gzipWorks
       /\ cdOut' = IF r.kind = "ok" THEN NoneOut ELSE r
       /\ cdPhase' = IF r.kind = "ok" THEN "encoded" ELSE "encode-failed"
       /\ cdCode' = IF r.kind = "ok" THEN r.code ELSE <<>>
       /\ cdEmbedded' = IF r.kind = "ok" THEN r.embedded ELSE NoEnvelope
  /\ UNCHANGED <<webrtcConfig, cdHasComp>>

\* decodeSignal over the code encodeSignal has just produced.
Codec_decodeOwn ==
  /\ UNCHANGED othersThanCodec
  /\ cdPhase = "encoded"
  /\ cdOut' = decodeSignal(cdCode, cdHasComp)
  /\ cdPhase' = "decoded"
  /\ UNCHANGED <<webrtcConfig, cdHasComp, cdDesc, cdGzipOk, cdEmbedded, cdCode>>

\* createAnswer(offerCode) / applyAnswer(answerCode) over a pasted code.
Codec_decodeForeign(code) ==
  /\ UNCHANGED othersThanCodec
  /\ cdPhase = "idle"
  /\ cdCode' = code
  /\ cdOut' = decodeSignal(code, cdHasComp)
  /\ cdPhase' = "foreign"
  /\ UNCHANGED <<webrtcConfig, cdHasComp, cdDesc, cdGzipOk, cdEmbedded>>

\* peer = new PeerClient(...): the next handshake starts afresh.
Codec_newClient ==
  /\ UNCHANGED othersThanCodec
  /\ cdPhase # "idle"
  /\ cdPhase' = "idle"
  /\ cdDesc' = NoDesc
  /\ cdGzipOk' = FALSE
  /\ cdEmbedded' = NoEnvelope
  /\ cdCode' = <<>>
  /\ cdOut' = NoneOut
  /\ UNCHANGED <<webrtcConfig, cdHasComp>>

CodecNext ==
  \/ \E enabled \in BOOLEAN : Codec_setUseStun(enabled)
  \/ \E enabled \in BOOLEAN : Codec_setUseSignalCompression(enabled)
  \/ \E enabled \in BOOLEAN : Codec_setUseFileUnordered(enabled)
  \/ \E enabled \in BOOLEAN : Codec_setUseFastTransfer(enabled)
  \/ \E t \in DescTypes, sd \in SdpStrings, gzipWorks \in BOOLEAN :
       Codec_encodeSignal([type |-> t, sdp |-> sd], gzipWorks)
  \/ Codec_decodeOwn
  \/ \E code \in ForeignCodes : Codec_decodeForeign(code)
  \/ Codec_newClient

(***************************************************************************)
(*      The application's transfer logic (part_000) over PeerClient        *)
(* A handler is one action: its synchronous code and every promise         *)
(* continuation it makes runnable.  Awaits that need the outside world     *)
(* (timers, channel events, disk writes, the user) park the caller until   *)
(* the action that settles them.  Handlers are written as operators on a   *)
(* record S of the application's state, so that one handler can call       *)
(* another.                                                                *)
(***************************************************************************)
TxIds == {"A", "B"}            \* ids of the files staged on this side
RxOrder == <<"X", "Y">>
RxIds == {"X", "Y"}            \* ids the peer announces
FileIds == TxIds \cup RxIds
MaxTxFrames == 2               \* frames of the largest staged file
MaxBurst == 2                  \* frames one pump slice sends at most
MaxQueueFull == 3              \* queue-full errors met by one transfer
MaxRxBytes == 5                \* size of the largest announced file
RxSizes == {0, MaxRxBytes}     \* an empty file, and one whose last frame is short
PeerChunkBytes == 2            \* payload bytes of a full frame (scaled)
WriteBatchBytes == 4           \* batchLimit of flushFileWrites (scaled)
CompactAfter == 1              \* writeQueueStart beyond which the queue is compacted (4096, scaled)
MaxAcceptResends == 1          \* resends of file-accept before the interval gives up (20, scaled)
MaxStripes == 2                \* stripes of one outgoing transfer
MaxRxChannels == 2             \* incoming file channels the peer opens
RxStripes == 0..(MaxRxChannels - 1)
FILE_CHUNK_SIZE == 262144
FILE_FRAME_HEADER_BYTES == 8
MiB == 1048576
HalfMiB == 524288
DeviceMemories == {0, 1, 8}           \* navigator.deviceMemory; 0: not reported
HardwareConcurrencies == {0, 4}       \* navigator.hardwareConcurrency
MaxMessageSizes == {0, 65536}         \* pc.sctp.maxMessageSize; 0: not reported

Min(a, b) == IF a < b THEN a ELSE b
Max(a, b) == IF a > b THEN a ELSE b
Range(seq) == {seq[i] : i \in DOMAIN seq}

getDeviceMemoryGB == deviceMemory

getFastFileChannelCount ==
  IF ~webrtcConfig.useFastTransfer THEN 1
  ELSE LET byMem == IF getDeviceMemoryGB >= 8 THEN 4
                    ELSE IF getDeviceMemoryGB >= 4 THEN 3 ELSE 2
           count == IF hardwareConcurrency > 0 /\ hardwareConcurrency <= 4
                    THEN Min(byMem, 2) ELSE byMem
       IN Max(1, Min(8, count))

DC_BUFFER_HIGH_WATER_MARK ==
  IF getDeviceMemoryGB >= 8 THEN 64 * MiB
  ELSE IF getDeviceMemoryGB >= 4 THEN 32 * MiB
  ELSE IF getDeviceMemoryGB > 0 /\ getDeviceMemoryGB < 2 THEN 8 * MiB
  ELSE 16 * MiB

getDcMaxMessageSize == IF maxMessageSize > 0 THEN maxMessageSize ELSE 0

getSendChunkSize(overheadBytes) ==
  LET base == IF getDcMaxMessageSize # 0
              THEN Min(FILE_CHUNK_SIZE, getDcMaxMessageSize)
              ELSE FILE_CHUNK_SIZE
  IN Max(1, base - Max(0, overheadBytes))

payloadChunkSize == getSendChunkSize(FILE_FRAME_HEADER_BYTES)
minHighWaterMark == Max(1 * MiB, payloadChunkSize * 4)

\* highWaterMark as sendFileChunks first computes it for channelCount open
\* channels.
startHighWaterMark(channelCount) ==
  LET totalHighWaterMark ==
        Max(DC_BUFFER_HIGH_WATER_MARK, minHighWaterMark * channelCount)
  IN Max(minHighWaterMark, totalHighWaterMark \div channelCount)

lowWaterMarkOf(highWaterMark) == Max(HalfMiB, highWaterMark \div 4)

\* highWaterMark after a queue-full error.
queueFullHighWaterMark_NoFloor(highWaterMark) == highWaterMark \div 2

queueFullHighWaterMark(highWaterMark) ==
  Max(minHighWaterMark, highWaterMark \div 2)

\* The local state of one doSendFile(id) call.
\*   pc: "none" (no call), or the await the call is parked at:
\*       "caps"       peer.waitForRemoteCaps
\*       "chan"       peer.ensureFileTxChannels
\*       "chan-closed" the same, after resetFileTxChannel closed the channels
\*                    it was opening (their waits reject)
\*       "accept"     waitForFileAccept
\*       "empty-wait" peer.waitForBuffer of the empty-file path
\*       "bufwait"    waitForAnyBuffer(highWaterMark, lowWaterMark)
\*       "drainwait"  waitForAnyBuffer(drainTarget) after a queue-full error
\*       "yield"      yieldToMain
\*       "done"       waitForFileDone
\*   queueFull: the queue-full errors the call has met
\*   prevHigh: highWaterMark as the last queue-full error found it
NoClosure ==
  [pc |-> "none", aborted |-> FALSE, waitAck |-> FALSE, streamCount |-> 1,
   frames |-> 0, seq |-> 0, highWaterMark |-> 0, queueFull |-> 0,
   prevHigh |-> 0]

\* The awaits that reject as soon as the controller's signal aborts.
AbortableWaits == {"accept", "empty-wait", "bufwait", "drainwait", "done"}

StopKinds == {"backpressure", "queue-full", "deadline", "send-error"}

\* What the browser does to one slice of the send pump: every open channel is
\* at the high watermark (allFull), or n frames go out and then the slice
\* stops for the given reason (unless the file is finished first).
NoPump == [allFull |-> TRUE, n |-> 0, stop |-> "backpressure"]
PumpEnvs ==
  {NoPump} \cup
  {e \in [allFull : {FALSE}, n : 0..MaxBurst, stop : StopKinds] :
     e.n = 0 => e.stop \in {"queue-full", "send-error"}}

NoAwait == <<"null", "none">>

\* A record of one incoming transfer (the state object of file-meta).
\*   writeQueue: the seq of every queued chunk, those a batch took included
\*       until the queue is compacted; writeQueueStart: how many were taken
\*   inFlight: the batch handed to writer.write that has not settled
\*   commits: the seq of every commitChunk call, in order
\*   written: the seq of every chunk the writer has taken, in order
\*   buffered: a frame ahead of expectedSeq was put into pendingChunks
\*   dropped: a frame behind expectedSeq, or one already pending, was dropped
NoIncoming ==
  [size |-> 0, received |-> 0, expectedSeq |-> 0, pendingChunks |-> {},
   accepted |-> FALSE, acceptAcked |-> FALSE, cancelled |-> FALSE,
   writer |-> "null", writeQueue |-> <<>>, writeQueueStart |-> 0,
   writeQueuedBytes |-> 0, inFlight |-> <<>>,
   writePromise |-> FALSE, acceptResendTimer |-> FALSE,
   acceptResendAttempts |-> 0, commits |-> <<>>, written |-> <<>>,
   buffered |-> FALSE, dropped |-> FALSE]

AppInitCommon ==
  /\ outgoingQueue = <<>>
  /\ outgoingQueuedIds = {}
  /\ outgoingRunning = FALSE
  /\ outgoingCancelledIds = {}
  /\ outgoingTransfers = [id \in FileIds |-> "none"]
  /\ fileAcceptWaiters = {}
  /\ fileAcceptEarly = {}
  /\ fileDoneWaiters = {}
  /\ sendClosure = [id \in FileIds |-> NoClosure]
  /\ fileTxChannels = 0
  /\ wireOwner = "null"
  /\ sentFiles = {}
  /\ incomingFiles = {}
  /\ receiving = "null"
  /\ receivedFiles = {}
  /\ incoming = [id \in FileIds |-> NoIncoming]
  /\ acceptPending = {}
  /\ chunkAwait = NoAwait
  /\ pendingUiOps = {}
  /\ fileRxChannels = {}
  /\ wireOut = <<>>
  /\ settled = {}

\* No file was ever staged or announced.
AppParked ==
  /\ AppInitCommon
  /\ deviceMemory = 0
  /\ hardwareConcurrency = 0
  /\ maxMessageSize = 0
  /\ stagedFiles = {}
  /\ fileFrames = [id \in FileIds |-> 0]

\* The application's state as a record; wireOut and settled start empty in
\* every handler.
AppState ==
  [dcOpen |-> dcState = "open",
   stagedFiles |-> stagedFiles,
   outgoingQueue |-> outgoingQueue,
   outgoingQueuedIds |-> outgoingQueuedIds,
   outgoingRunning |-> outgoingRunning,
   outgoingCancelledIds |-> outgoingCancelledIds,
   outgoingTransfers |-> outgoingTransfers,
   fileAcceptWaiters |-> fileAcceptWaiters,
   fileAcceptEarly |-> fileAcceptEarly,
   fileDoneWaiters |-> fileDoneWaiters,
   sendClosure |-> sendClosure,
   fileTxChannels |-> fileTxChannels,
   wireOwner |-> wireOwner,
   sentFiles |-> sentFiles,
   incomingFiles |-> incomingFiles,
   receiving |-> receiving,
   receivedFiles |-> receivedFiles,
   incoming |-> incoming,
   acceptPending |-> acceptPending,
   chunkAwait |-> chunkAwait,
   pendingUiOps |-> pendingUiOps,
   fileRxChannels |-> fileRxChannels,
   wireOut |-> <<>>,
   settled |-> {}]

\* A state object is reachable from the maps, from peer.receiving, or from a
\* call parked at an await; the file-done of the handler that just ran still
\* names the object it was about.  Any other object is garbage.
Reachable(S, id) ==
  \/ id \in S.incomingFiles
  \/ S.receiving = id
  \/ id \in S.acceptPending
  \/ S.incoming[id].writePromise
  \/ S.incoming[id].acceptResendTimer
  \/ S.chunkAwait[1] = id
  \/ <<"file-done", id>> \in Range(S.wireOut)

AppCommit(S) ==
  /\ stagedFiles' = S.stagedFiles
  /\ outgoingQueue' = S.outgoingQueue
  /\ outgoingQueuedIds' = S.outgoingQueuedIds
  /\ outgoingRunning' = S.outgoingRunning
  /\ outgoingCancelledIds' = S.outgoingCancelledIds
  /\ outgoingTransfers' = S.outgoingTransfers
  /\ fileAcceptWaiters' = S.fileAcceptWaiters
  /\ fileAcceptEarly' = S.fileAcceptEarly
  /\ fileDoneWaiters' = S.fileDoneWaiters
  /\ sendClosure' = S.sendClosure
  /\ fileTxChannels' = S.fileTxChannels
  /\ wireOwner' = S.wireOwner
  /\ sentFiles' = S.sentFiles
  /\ incomingFiles' = S.incomingFiles
  /\ receiving' = S.receiving
  /\ receivedFiles' = S.receivedFiles
  /\ incoming' = [id \in FileIds |->
                    IF Reachable(S, id) THEN S.incoming[id] ELSE NoIncoming]
  /\ acceptPending' = S.acceptPending
  /\ chunkAwait' = S.chunkAwait
  /\ pendingUiOps' = S.pendingUiOps
  /\ fileRxChannels' = S.fileRxChannels
  /\ wireOut' = S.wireOut
  /\ settled' = S.settled
  /\ UNCHANGED <<deviceMemory, hardwareConcurrency, maxMessageSize, fileFrames>>

\* PeerClient.send(data): dropped silently unless the control channel is open.
PeerClient_send(S, msg) ==
  IF S.dcOpen THEN [S EXCEPT !.wireOut = Append(@, msg)] ELSE S

\* What a control message or a file frame handed to onData does to PeerClient
\* before the application sees it.
PeerClient_inbound(ev) ==
  /\ lastPeerActivityAt' = markPeerActivity.at
  /\ peerTimedOut' = markPeerActivity.timedOut
  /\ emitted' = markPeerActivity.emits
  /\ status' = LastOf(markPeerActivity.emits, status)
  /\ ctrlSent' = <<>>
  /\ ctrlFirst' = FirstSent(ctrlSent')
  /\ hbEvent' = ev
  /\ UNCHANGED <<dcState, hbTimer, hbNextAt, hbNow>>

(***************************************************************************)
(*                      Sender: the outgoing queue                         *)
(***************************************************************************)
\* The inner finally without outgoingQueuedIds.delete(id).
jobFinally_KeepQueued(S, id, outcome) ==
  [S EXCEPT !.outgoingCancelledIds = @ \ {id},
            !.settled = @ \cup {<<id, outcome>>}]

\* processOutgoingQueue: job.resolve() or job.reject(err), then the inner
\* finally.  The outcome is "ok" or the error the caller's promise rejects with.
jobFinally(S, id, outcome) ==
  [S EXCEPT !.outgoingQueuedIds = @ \ {id}, !.outgoingCancelledIds = @ \ {id},
            !.settled = @ \cup {<<id, outcome>>}]

streamCountFor(caps) ==
  IF caps = "striping" /\ getFastFileChannelCount > 1
  THEN getFastFileChannelCount ELSE 1

\* How doSendFile(id) ends when it ends before its first await.
doSendFile_early(S, id) ==
  IF id \notin S.stagedFiles THEN "ok"
  ELSE IF ~S.dcOpen THEN "Connection not established"
  ELSE "AbortError"

\* doSendFile(id) up to its first pending await.
doSendFile(S, id, caps) ==
  IF id \notin S.stagedFiles THEN S
  ELSE IF ~S.dcOpen THEN S                      \* "Connection not established"
  ELSE IF id \in S.outgoingCancelledIds THEN S  \* AbortError
  ELSE [S EXCEPT
          !.outgoingTransfers[id] = "meta-unsent",
          !.sendClosure[id] =
             [NoClosure EXCEPT
                !.pc = IF webrtcConfig.useFastTransfer /\ caps = "null"
                       THEN "caps" ELSE "chan",
                !.waitAck = webrtcConfig.useUnorderedFileChannel,
                !.streamCount = IF webrtcConfig.useFastTransfer
                                THEN streamCountFor(caps) ELSE 1]]

\* The while loop of processOutgoingQueue, until the queue is empty or
\* doSendFile is pending.
RECURSIVE processLoop(_)
processLoop(S) ==
  IF S.outgoingQueue = <<>> THEN [S EXCEPT !.outgoingRunning = FALSE]
  ELSE LET id == Head(S.outgoingQueue)
           S1 == [S EXCEPT !.outgoingQueue = Tail(@)]
       IN IF id \in S1.outgoingCancelledIds
          THEN processLoop(jobFinally(S1, id, "AbortError"))
          ELSE LET S2 == doSendFile(S1, id, remoteCaps)
               IN IF S2.sendClosure[id].pc # "none" THEN S2
                  ELSE processLoop(jobFinally(S2, id, doSendFile_early(S1, id)))

processOutgoingQueue_NoGuard(S) ==
  processLoop([S EXCEPT !.outgoingRunning = TRUE])

processOutgoingQueue(S) ==
  IF S.outgoingRunning THEN S
  ELSE processLoop([S EXCEPT !.outgoingRunning = TRUE])

enqueueOutgoingFile(S, id) ==
  IF id \in S.outgoingQueuedIds THEN S
  ELSE processOutgoingQueue(
         [S EXCEPT !.outgoingQueuedIds = @ \cup {id},
                   !.outgoingQueue = Append(@, id)])

\* doSendFile's finally, then the queue runner that awaited the call.
doSendFile_finally(S, id, outcome) ==
  processLoop(jobFinally([S EXCEPT !.outgoingTransfers[id] = "none",
                                   !.sendClosure[id] = NoClosure], id, outcome))

waitForFileDone(S, id) ==
  IF id \in S.fileDoneWaiters THEN doSendFile_finally(S, id, "Duplicate done waiter")
  ELSE IF S.sendClosure[id].aborted THEN doSendFile_finally(S, id, "AbortError")
  ELSE [S EXCEPT !.fileDoneWaiters = @ \cup {id},
                 !.sendClosure[id].pc = "done"]

\* doSendFile without the wait for file-done.
afterChunks_NoWait(S, id) == doSendFile_finally(S, id, "ok")

\* doSendFile after sendFileChunks returned.
afterChunks(S, id) ==
  IF S.sendClosure[id].waitAck THEN waitForFileDone(S, id)
  ELSE doSendFile_finally(S, id, "ok")

\* The channels of this call that are open.
getOpenChannels(S, id) == Min(S.sendClosure[id].streamCount, S.fileTxChannels)

sendFrames(S, id, n) ==
  [S EXCEPT
     !.wireOut = @ \o [i \in 1..n |-> <<"frame", id, S.sendClosure[id].seq + i - 1>>],
     !.sendClosure[id].seq = @ + n]

\* The empty-file path of sendFileChunks from its send loop on.
sendEmptyFrame(S, id, e) ==
  IF S.sendClosure[id].aborted THEN doSendFile_finally(S, id, "AbortError")
  ELSE IF e.stop = "queue-full"
       THEN [S EXCEPT !.sendClosure[id].pc = "empty-wait"]
  ELSE IF e.stop = "send-error" THEN doSendFile_finally(S, id, "send-error")
  ELSE afterChunks([sendFrames(S, id, 1) EXCEPT !.stagedFiles = @ \ {id},
                                                 !.sentFiles = @ \cup {id}], id)

\* The pump without the signal test at the top of its loops.
pumpLoop_NoAbortCheck(S, id, e) ==
  LET c == S.sendClosure[id] IN
  IF ~S.dcOpen THEN doSendFile_finally(S, id, "Connection lost")
  ELSE IF getOpenChannels(S, id) = 0 /\ ~c.aborted
       THEN doSendFile_finally(S, id, "File channel closed")
  ELSE IF e.allFull THEN [S EXCEPT !.sendClosure[id].pc = "bufwait"]
  ELSE LET n == Min(e.n, c.frames - c.seq)
           S1 == sendFrames(S, id, n)
       IN IF c.seq + n >= c.frames
          THEN afterChunks([S1 EXCEPT !.stagedFiles = @ \ {id},
                                      !.sentFiles = @ \cup {id}], id)
          ELSE [S1 EXCEPT !.sendClosure[id].pc = "yield"]

\* The pump with offset and seq advanced past the frame the queue refused.
pumpLoop_AdvanceOnRefusal(S, id, e) ==
  LET c == S.sendClosure[id] IN
  IF c.aborted THEN doSendFile_finally(S, id, "AbortError")
  ELSE IF ~S.dcOpen THEN doSendFile_finally(S, id, "Connection lost")
  ELSE IF getOpenChannels(S, id) = 0 THEN doSendFile_finally(S, id, "File channel closed")
  ELSE IF e.allFull THEN [S EXCEPT !.sendClosure[id].pc = "bufwait"]
  ELSE LET n == Min(e.n, c.frames - c.seq)
           S1 == sendFrames(S, id, n)
       IN IF c.seq + n >= c.frames
          THEN afterChunks([S1 EXCEPT !.stagedFiles = @ \ {id},
                                      !.sentFiles = @ \cup {id}], id)
          ELSE IF e.stop = "queue-full"
               THEN [S1 EXCEPT
                       !.sendClosure[id].prevHigh = S1.sendClosure[id].highWaterMark,
                       !.sendClosure[id].highWaterMark = queueFullHighWaterMark(@),
                       !.sendClosure[id].queueFull = @ + 1,
                       !.sendClosure[id].seq = @ + 1,
                       !.sendClosure[id].pc = "drainwait"]
          ELSE IF e.stop = "send-error" THEN doSendFile_finally(S1, id, "send-error")
          ELSE IF e.stop = "backpressure"
               THEN [S1 EXCEPT !.sendClosure[id].pc = "bufwait"]
          ELSE [S1 EXCEPT !.sendClosure[id].pc = "yield"]

\* One turn of the outer while loop of sendFileChunks, to its next await.
pumpLoop(S, id, e) ==
  LET c == S.sendClosure[id] IN
  IF c.aborted THEN doSendFile_finally(S, id, "AbortError")
  ELSE IF ~S.dcOpen THEN doSendFile_finally(S, id, "Connection lost")
  ELSE IF getOpenChannels(S, id) = 0 THEN doSendFile_finally(S, id, "File channel closed")
  ELSE IF e.allFull THEN [S EXCEPT !.sendClosure[id].pc = "bufwait"]
  ELSE LET n == Min(e.n, c.frames - c.seq)
           S1 == sendFrames(S, id, n)
       IN IF c.seq + n >= c.frames
          THEN afterChunks([S1 EXCEPT !.stagedFiles = @ \ {id},
                                      !.sentFiles = @ \cup {id}], id)
          ELSE IF e.stop = "queue-full"
               THEN [S1 EXCEPT
                       !.sendClosure[id].prevHigh = S1.sendClosure[id].highWaterMark,
                       !.sendClosure[id].highWaterMark = queueFullHighWaterMark(@),
                       !.sendClosure[id].queueFull = @ + 1,
                       !.sendClosure[id].pc = "drainwait"]
          ELSE IF e.stop = "send-error" THEN doSendFile_finally(S1, id, "send-error")
          ELSE IF e.stop = "backpressure"
               THEN [S1 EXCEPT !.sendClosure[id].pc = "bufwait"]
          ELSE [S1 EXCEPT !.sendClosure[id].pc = "yield"]

\* After the drain wait of a queue-full error: hitBackpressure, then
\* waitForAnyBuffer(highWaterMark, lowWaterMark), then the loop again.
afterDrain(S, id, e) ==
  IF e.allFull /\ getOpenChannels(S, id) > 0
  THEN IF S.sendClosure[id].aborted THEN doSendFile_finally(S, id, "AbortError")
       ELSE [S EXCEPT !.sendClosure[id].pc = "bufwait"]
  ELSE pumpLoop(S, id, e)

sendFileChunks(S, id, e) ==
  IF id \notin S.stagedFiles THEN afterChunks(S, id)
  ELSE IF ~S.dcOpen THEN doSendFile_finally(S, id, "Connection not established")
  ELSE IF getOpenChannels(S, id) = 0 THEN doSendFile_finally(S, id, "File channel not ready")
  ELSE IF S.sendClosure[id].aborted THEN doSendFile_finally(S, id, "AbortError")
  ELSE LET S1 == [S EXCEPT
                    !.sendClosure[id].frames = fileFrames[id],
                    !.sendClosure[id].seq = 0,
                    !.sendClosure[id].highWaterMark =
                       startHighWaterMark(getOpenChannels(S, id))]
       IN IF fileFrames[id] = 0
          THEN IF e.allFull
               THEN [S1 EXCEPT !.sendClosure[id].pc = "empty-wait"]
               ELSE sendEmptyFrame(S1, id, e)
          ELSE pumpLoop(S1, id, e)

\* doSendFile after ensureFileTxChannels resolved: file-meta, then
\* waitForFileAccept.
afterChannels(S, id, e) ==
  IF S.sendClosure[id].aborted THEN doSendFile_finally(S, id, "AbortError")
  ELSE LET S1 == PeerClient_send(S, <<"file-meta", id>>)
           S2 == [S1 EXCEPT
                    !.wireOwner = IF S.dcOpen THEN id ELSE @,
                    !.outgoingTransfers[id] = IF @ = "none" THEN @ ELSE "meta-sent"]
       IN IF id \in S2.fileAcceptEarly
          THEN sendFileChunks([S2 EXCEPT !.fileAcceptEarly = @ \ {id}], id, e)
          ELSE IF id \in S2.fileAcceptWaiters
               THEN doSendFile_finally(S2, id, "Duplicate accept waiter")
          ELSE [S2 EXCEPT !.fileAcceptWaiters = @ \cup {id},
                          !.sendClosure[id].pc = "accept"]

resolveFileAccept(S, id, e) ==
  IF id \notin S.fileAcceptWaiters
  THEN IF S.outgoingTransfers[id] # "none"
       THEN [S EXCEPT !.fileAcceptEarly = @ \cup {id}] ELSE S
  ELSE sendFileChunks([S EXCEPT !.fileAcceptWaiters = @ \ {id}], id, e)

resolveFileDone(S, id) ==
  IF id \notin S.fileDoneWaiters THEN S
  ELSE doSendFile_finally([S EXCEPT !.fileDoneWaiters = @ \ {id}], id, "ok")

\* cancelQueuedOutgoingJob dropping every job behind the cancelled one too.
cancelQueuedOutgoingJob_DropRest(S, id) ==
  [S EXCEPT !.outgoingQueue = <<>>,
            !.outgoingQueuedIds = @ \ {id},
            !.outgoingCancelledIds = @ \ {id},
            !.settled = @ \cup {<<id, "AbortError">>}]

cancelQueuedOutgoingJob(S, id) ==
  [S EXCEPT !.outgoingQueue = SelectSeq(@, LAMBDA x : x # id),
            !.outgoingQueuedIds = @ \ {id},
            !.outgoingCancelledIds = @ \ {id},
            !.settled = @ \cup {<<id, "AbortError">>}]

\* cancelOutgoingFile without the metaSent test of its active branch.
cancelOutgoingFile_NoMetaTest(S, id, notifyPeer) ==
  IF S.outgoingTransfers[id] = "none" /\ id \notin S.outgoingQueuedIds
  THEN [S EXCEPT !.stagedFiles = @ \ {id}]
  ELSE
    LET S1 == [S EXCEPT !.fileAcceptEarly = @ \ {id}] IN
    IF S1.outgoingTransfers[id] # "none"
    THEN
      LET S2 == IF notifyPeer
                THEN PeerClient_send(S1, <<"file-cancel", id>>) ELSE S1
          S3 == [S2 EXCEPT !.fileAcceptWaiters = @ \ {id},
                           !.fileDoneWaiters =
                              IF S2.sendClosure[id].pc = "done" THEN @ \ {id} ELSE @,
                           !.sendClosure[id].aborted = TRUE,
                           !.sendClosure[id].pc = IF @ = "chan" THEN "chan-closed" ELSE @,
                           !.fileTxChannels = 0]
      IN IF S3.sendClosure[id].pc \in AbortableWaits
         THEN doSendFile_finally(S3, id, "AbortError") ELSE S3
    ELSE IF id \in Range(S1.outgoingQueue)
         THEN cancelQueuedOutgoingJob(S1, id)
    ELSE [S1 EXCEPT !.outgoingCancelledIds = @ \cup {id}]

cancelOutgoingFile(S, id, notifyPeer) ==
  IF S.outgoingTransfers[id] = "none" /\ id \notin S.outgoingQueuedIds
  THEN [S EXCEPT !.stagedFiles = @ \ {id}]                 \* pending
  ELSE
    LET S1 == [S EXCEPT !.fileAcceptEarly = @ \ {id}] IN
    IF S1.outgoingTransfers[id] # "none"
    THEN                                                   \* active
      LET S2 == IF notifyPeer /\ S1.outgoingTransfers[id] = "meta-sent"
                THEN PeerClient_send(S1, <<"file-cancel", id>>) ELSE S1
          \* rejectFileAccept, controller.abort, resetFileTxChannel
          S3 == [S2 EXCEPT !.fileAcceptWaiters = @ \ {id},
                           !.fileDoneWaiters =
                              IF S2.sendClosure[id].pc = "done" THEN @ \ {id} ELSE @,
                           !.sendClosure[id].aborted = TRUE,
                           !.sendClosure[id].pc = IF @ = "chan" THEN "chan-closed" ELSE @,
                           !.fileTxChannels = 0]
      IN IF S3.sendClosure[id].pc \in AbortableWaits
         THEN doSendFile_finally(S3, id, "AbortError") ELSE S3
    ELSE IF id \in Range(S1.outgoingQueue)
         THEN cancelQueuedOutgoingJob(S1, id)              \* queued
    ELSE [S1 EXCEPT !.outgoingCancelledIds = @ \cup {id}]

RECURSIVE settleAll(_, _)
settleAll(S, ids) ==
  IF ids = {} THEN S
  ELSE LET id == CHOOSE x \in ids : TRUE
           \* a waiter is rejected with Error("Connection lost") before the
           \* controller aborts; the buffer waits reject with the abort error
           outcome == IF S.sendClosure[id].pc \in {"accept", "done"}
                      THEN "Connection lost" ELSE "AbortError"
       IN settleAll(doSendFile_finally(S, id, outcome), ids \ {id})

(***************************************************************************)
(*                    Receiver: reassembly and the sink                    *)
(***************************************************************************)
\* The frames an honest sender makes of a file of the given size.
FrameCount(size) ==
  IF size = 0 THEN 1 ELSE (size + PeerChunkBytes - 1) \div PeerChunkBytes

FrameBytes(size, seq) == Max(0, Min(PeerChunkBytes, size - seq * PeerChunkBytes))

\* handleFileFrame: the payload length taken from a frame.
handleFileFrame_len(declaredLen, payloadLen) ==
  IF declaredLen # 0 /\ declaredLen <= payloadLen THEN declaredLen ELSE payloadLen

\* The number of queued chunks the next write batch takes.
RECURSIVE batchTake(_, _, _, _)
batchTake(r, k, batchBytes, batchLimit) ==
  IF r.writeQueueStart + k < Len(r.writeQueue) /\ batchBytes < batchLimit
  THEN batchTake(r, k + 1,
                 batchBytes + FrameBytes(r.size, r.writeQueue[r.writeQueueStart + k + 1]),
                 batchLimit)
  ELSE k

\* The bytes of the chunks of a batch or of a stretch of the queue.
RECURSIVE batchBytesOf(_, _)
batchBytesOf(r, items) ==
  IF items = <<>> THEN 0
  ELSE FrameBytes(r.size, Head(items)) + batchBytesOf(r, Tail(items))

\* flushFileWrites without the test of state.writePromise.
flushFileWrites_NoGuard(r) ==
  IF r.writer # "open" THEN r
  ELSE IF r.writeQueueStart >= Len(r.writeQueue) THEN r
  ELSE LET k == batchTake(r, 0, 0, WriteBatchBytes)
       IN [r EXCEPT !.writePromise = TRUE,
                    !.inFlight = SubSeq(r.writeQueue, r.writeQueueStart + 1,
                                        r.writeQueueStart + k),
                    !.writeQueueStart = @ + k]

\* flushFileWrites(state) to its first await.
flushFileWrites(r) ==
  IF r.writer # "open" THEN r
  ELSE IF r.writePromise THEN r
  ELSE IF r.writeQueueStart >= Len(r.writeQueue) THEN r
  ELSE LET k == batchTake(r, 0, 0, WriteBatchBytes)
       IN [r EXCEPT !.writePromise = TRUE,
                    !.inFlight = SubSeq(r.writeQueue, r.writeQueueStart + 1,
                                        r.writeQueueStart + k),
                    !.writeQueueStart = @ + k]

\* The compaction without the reset of writeQueueStart.
compactWriteQueue_KeepStart(r) ==
  IF r.writeQueueStart > CompactAfter /\ 2 * r.writeQueueStart > Len(r.writeQueue)
  THEN [r EXCEPT !.writeQueue = SubSeq(@, r.writeQueueStart + 1, Len(@))]
  ELSE r

\* flushFileWrites after a write: the occasional compaction of the queue.
compactWriteQueue(r) ==
  IF r.writeQueueStart > CompactAfter /\ 2 * r.writeQueueStart > Len(r.writeQueue)
  THEN [r EXCEPT !.writeQueue = SubSeq(@, r.writeQueueStart + 1, Len(@)),
                 !.writeQueueStart = 0]
  ELSE r

commitChunk(r, seq) ==
  LET chunkBytes == handleFileFrame_len(FrameBytes(r.size, seq), FrameBytes(r.size, seq))
      r1 == [r EXCEPT !.commits = Append(@, seq)]
  IN IF chunkBytes <= 0 THEN r1
     ELSE LET r2 == IF r1.writer # "null"
                    THEN flushFileWrites([r1 EXCEPT !.writeQueue = Append(@, seq),
                                                    !.writeQueuedBytes = @ + chunkBytes])
                    ELSE r1
          IN [r2 EXCEPT !.received = @ + chunkBytes]

\* The file-chunk branch without its loop over pendingChunks.
drainPending_NoDrain(r) == r

RECURSIVE drainPending(_)
drainPending(r) ==
  IF r.expectedSeq \in r.pendingChunks
  THEN drainPending(
         [commitChunk([r EXCEPT !.pendingChunks = @ \ {r.expectedSeq}], r.expectedSeq)
            EXCEPT !.expectedSeq = @ + 1])
  ELSE r

isLate_Never(seq, expectedSeq) == FALSE

isLate(seq, expectedSeq) == seq < expectedSeq

transferComplete_Early(r) == r.received + 1 >= r.size

transferComplete(r) == r.received >= r.size

cancelIncomingFile_KeepEntry(S, id, notifyPeer) ==
  IF id \notin S.incomingFiles THEN S ELSE
  LET S1 == [S EXCEPT
               !.incoming[id].cancelled = TRUE,
               !.incoming[id].acceptResendTimer = FALSE,
               !.receiving = IF @ = id THEN "null" ELSE @]
      S2 == IF notifyPeer THEN PeerClient_send(S1, <<"file-cancel", id>>) ELSE S1
  IN [S2 EXCEPT !.fileRxChannels = {},
                !.incoming[id].writer = "null",
                !.incoming[id].writeQueue = <<>>,
                !.incoming[id].writeQueueStart = 0,
                !.incoming[id].writeQueuedBytes = 0]

\* cancelIncomingFile without the reset of peer.receiving.
cancelIncomingFile_KeepReceiving(S, id, notifyPeer) ==
  IF id \notin S.incomingFiles THEN S ELSE
  LET S1 == [S EXCEPT
               !.incoming[id].cancelled = TRUE,
               !.incoming[id].acceptResendTimer = FALSE,
               !.incomingFiles = @ \ {id}]
      S2 == IF notifyPeer THEN PeerClient_send(S1, <<"file-cancel", id>>) ELSE S1
  IN [S2 EXCEPT !.fileRxChannels = {},
                !.incoming[id].writer = "null",
                !.incoming[id].writeQueue = <<>>,
                !.incoming[id].writeQueueStart = 0,
                !.incoming[id].writeQueuedBytes = 0]

cancelIncomingFile(S, id, notifyPeer) ==
  IF id \notin S.incomingFiles THEN S
  ELSE
    LET S1 == [S EXCEPT
                 !.incoming[id].cancelled = TRUE,
                 !.incoming[id].acceptResendTimer = FALSE,
                 !.incomingFiles = @ \ {id},
                 !.receiving = IF @ = id THEN "null" ELSE @]
        S2 == IF notifyPeer THEN PeerClient_send(S1, <<"file-cancel", id>>) ELSE S1
    IN [S2 EXCEPT !.fileRxChannels = {},
                  !.incoming[id].writer = "null",
                  !.incoming[id].writeQueue = <<>>,
                  !.incoming[id].writeQueueStart = 0,
                  !.incoming[id].writeQueuedBytes = 0]

RECURSIVE cancelIncomingAll(_, _)
cancelIncomingAll(S, ids) ==
  IF ids = {} THEN S
  ELSE LET id == CHOOSE x \in ids : TRUE
       IN cancelIncomingAll(cancelIncomingFile(S, id, FALSE), ids \ {id})

\* The end of the file-chunk branch: receivedFiles, file-done, receiving,
\* and the UI operation that drops the incomingFiles entry.
completeTail(S, id, uiReady) ==
  LET S1 == IF S.incoming[id].writer = "null"
            THEN [S EXCEPT !.receivedFiles = @ \cup {id}] ELSE S
      S2 == PeerClient_send(S1, <<"file-done", id>>)
      S3 == [S2 EXCEPT !.receiving = "null", !.chunkAwait = NoAwait]
  IN IF uiReady THEN [S3 EXCEPT !.incomingFiles = @ \ {id}]
     ELSE [S3 EXCEPT !.pendingUiOps = @ \cup {id}]

\* The file-chunk branch once flushFileWrites(r) has resolved.
afterFlush(S, id, uiReady) ==
  IF S.incoming[id].writer # "null"
  THEN [S EXCEPT !.chunkAwait = <<id, "close">>]
  ELSE completeTail(S, id, uiReady)

\* The file-chunk branch of onPeerData.
onFileChunk(S, seq, uiReady) ==
  LET id == S.receiving IN
  IF id = "null" THEN S
  ELSE LET r == S.incoming[id] IN
    IF r.cancelled THEN S
    ELSE IF ~r.accepted THEN S
    ELSE IF r.writer = "null" THEN cancelIncomingFile(S, id, TRUE)
    ELSE
      LET r1 == [r EXCEPT !.acceptAcked = TRUE, !.acceptResendTimer = FALSE] IN
      IF isLate(seq, r1.expectedSeq)
      THEN [S EXCEPT !.incoming[id] = [r1 EXCEPT !.dropped = TRUE]]
      ELSE IF seq > r1.expectedSeq
           THEN [S EXCEPT !.incoming[id] =
                   IF seq \in r1.pendingChunks THEN [r1 EXCEPT !.dropped = TRUE]
                   ELSE [r1 EXCEPT !.pendingChunks = @ \cup {seq}, !.buffered = TRUE]]
      ELSE LET r2 == drainPending([commitChunk(r1, seq) EXCEPT !.expectedSeq = @ + 1])
               S1 == [S EXCEPT !.incoming[id] = r2]
           IN IF ~transferComplete(r2) THEN S1
              ELSE IF r2.writer = "null" THEN completeTail(S1, id, uiReady)
              ELSE IF r2.writePromise
                   THEN [S1 EXCEPT !.chunkAwait = <<id, "flush">>]
              ELSE afterFlush(S1, id, uiReady)

\* writer.write settled inside flushFileWrites.
writeSettled(S, id, ok, uiReady) ==
  LET r == S.incoming[id]
      S1 == IF ok
            THEN LET r1 == [r EXCEPT !.written = @ \o r.inFlight, !.inFlight = <<>>,
                                     !.writeQueuedBytes =
                                        Max(0, @ - batchBytesOf(r, r.inFlight)),
                                     !.writePromise = FALSE]
                 IN [S EXCEPT !.incoming[id] = flushFileWrites(compactWriteQueue(r1))]
            ELSE LET S0 == cancelIncomingFile(
                              [S EXCEPT !.incoming[id].inFlight = <<>>,
                                        !.incoming[id].writePromise = FALSE], id, TRUE)
                 IN [S0 EXCEPT !.incoming[id] = flushFileWrites(@)]
  IN IF ~S1.incoming[id].writePromise /\ S1.chunkAwait = <<id, "flush">>
     THEN afterFlush(S1, id, uiReady)
     ELSE S1

\* sendAccept() of acceptFile: nothing goes out unless the control channel
\* is open.
acceptFile_sendAccept(S, id) == PeerClient_send(S, <<"file-accept", id>>)

\* acceptFile once the save file is open: sendAccept and the resend interval.
acceptFile_send(S, id) ==
  IF ~S.dcOpen THEN S
  ELSE [PeerClient_send(S, <<"file-accept", id>>) EXCEPT
          !.incoming[id].accepted = TRUE,
          !.incoming[id].acceptAcked = FALSE,
          !.incoming[id].acceptResendTimer = TRUE,
          !.incoming[id].acceptResendAttempts = 0]

\* onPeerStatus for "disconnected", "failed", "closed".
onPeerStatus(S, st) ==
  IF st \notin {"disconnected", "failed", "closed"} THEN S
  ELSE
    LET rejected ==
          {id \in FileIds :
             \/ S.sendClosure[id].pc = "accept" /\ id \in S.fileAcceptWaiters
             \/ S.sendClosure[id].pc = "done" /\ id \in S.fileDoneWaiters
             \/ /\ S.outgoingTransfers[id] # "none"
                /\ S.sendClosure[id].pc \in AbortableWaits}
        S1 == [S EXCEPT
                 !.fileAcceptEarly = {},
                 !.fileAcceptWaiters = {},
                 !.fileDoneWaiters = {},
                 !.sendClosure =
                    [id \in FileIds |->
                       IF S.outgoingTransfers[id] # "none"
                       THEN [@[id] EXCEPT !.aborted = TRUE] ELSE @[id]],
                 !.outgoingTransfers = [id \in FileIds |-> "none"]]
        S2 == IF S1.receiving # "null"
              THEN cancelIncomingFile(S1, S1.receiving, FALSE) ELSE S1
        S3 == cancelIncomingAll(S2, S2.incomingFiles)
    IN settleAll(S3, rejected)

(***************************************************************************)
(*                               Actions                                   *)
(***************************************************************************)
\* window.startSend(id)
Tx_startSend(id) ==
  /\ UNCHANGED <<sigVars, cdVars, hbVars, regVars, hsVars, linkVars>>
  /\ AppCommit(IF id \notin stagedFiles \/ dcState # "open" THEN AppState
               ELSE enqueueOutgoingFile(AppState, id))

\* window.cancelSend(id)
Tx_cancelSend(id) ==
  /\ UNCHANGED <<sigVars, cdVars, hbVars, regVars, hsVars, linkVars>>
  /\ AppCommit(cancelOutgoingFile(AppState, id, TRUE))

\* onPeerData: file-cancel
App_onFileCancel(id) ==
  /\ UNCHANGED <<sigVars, cdVars, hbVars, regVars, hsVars, linkVars>>
  /\ dcState = "open"
  /\ AppCommit(cancelIncomingFile(cancelOutgoingFile(AppState, id, FALSE), id, FALSE))

\* onPeerData: file-accept
Tx_onFileAccept(id, e) ==
  /\ UNCHANGED <<sigVars, cdVars, hbVars, regVars, hsVars, linkVars>>
  /\ dcState = "open"
  /\ id \notin fileAcceptWaiters => e = NoPump      \* no pump to run
  /\ AppCommit(PeerClient_send(resolveFileAccept(AppState, id, e),
                               <<"file-accept-ack", id>>))

\* onPeerData: file-done
Tx_onFileDone(id) ==
  /\ UNCHANGED <<sigVars, cdVars, hbVars, regVars, hsVars, linkVars>>
  /\ dcState = "open"
  /\ AppCommit(resolveFileDone(AppState, id))

\* handleCtrlMessage: hello; _setRemoteCaps wakes waitForRemoteCaps.
Tx_onHello(striping) ==
  /\ UNCHANGED <<sigVars, cdVars, regVars, hsVars, linkVars>>
  /\ dcState = "open"
  /\ PeerClient_inbound("ctrl-message")
  /\ remoteCaps' = IF striping THEN "striping" ELSE "plain"
  /\ AppCommit([AppState EXCEPT
        !.sendClosure =
           [id \in FileIds |->
              IF @[id].pc = "caps"
              THEN [@[id] EXCEPT !.pc = "chan",
                                 !.streamCount = streamCountFor(remoteCaps')]
              ELSE @[id]]])

\* The 1200 ms timer of waitForRemoteCaps.
Tx_capsTimeout(id) ==
  /\ UNCHANGED <<sigVars, cdVars, hbVars, regVars, hsVars, linkVars>>
  /\ sendClosure[id].pc = "caps"
  /\ AppCommit([AppState EXCEPT !.sendClosure[id].pc = "chan",
                                !.sendClosure[id].streamCount = streamCountFor("null")])

\* ensureFileTxChannels settles: every channel open, or a rejection.
Tx_channelsSettled(id, ok, e) ==
  /\ UNCHANGED <<sigVars, cdVars, hbVars, regVars, hsVars, linkVars>>
  /\ sendClosure[id].pc \in {"chan", "chan-closed"}
  /\ sendClosure[id].pc = "chan-closed" => ~ok
  /\ ~ok => e = NoPump
  /\ AppCommit(IF ok
               THEN afterChannels(
                      [AppState EXCEPT
                         !.fileTxChannels = Max(@, sendClosure[id].streamCount)], id, e)
               ELSE doSendFile_finally(AppState, id, "channel-open-error"))

\* The 10 minute timer of waitForFileAccept.
Tx_acceptTimeout(id) ==
  /\ UNCHANGED <<sigVars, cdVars, hbVars, regVars, hsVars, linkVars>>
  /\ sendClosure[id].pc = "accept"
  /\ id \in fileAcceptWaiters
  /\ AppCommit(doSendFile_finally([AppState EXCEPT !.fileAcceptWaiters = @ \ {id}], id,
                                  "accept-timeout"))

\* The 10 minute timer of waitForFileDone.
Tx_doneTimeout(id) ==
  /\ UNCHANGED <<sigVars, cdVars, hbVars, regVars, hsVars, linkVars>>
  /\ sendClosure[id].pc = "done"
  /\ id \in fileDoneWaiters
  /\ AppCommit(doSendFile_finally([AppState EXCEPT !.fileDoneWaiters = @ \ {id}], id,
                                  "done-timeout"))

\* waitForBuffer / waitForAnyBuffer resolves (drained, timed out, channels gone).
Tx_bufferWaitSettled(id, e) ==
  /\ UNCHANGED <<sigVars, cdVars, hbVars, regVars, hsVars, linkVars>>
  /\ sendClosure[id].pc \in {"empty-wait", "bufwait", "drainwait"}
  /\ e.stop = "queue-full" => sendClosure[id].queueFull < MaxQueueFull
  /\ AppCommit(IF sendClosure[id].pc = "empty-wait" THEN sendEmptyFrame(AppState, id, e)
               ELSE IF sendClosure[id].pc = "drainwait" THEN afterDrain(AppState, id, e)
               ELSE pumpLoop(AppState, id, e))

\* The setTimeout(0) of yieldToMain.
Tx_yieldResumed(id, e) ==
  /\ UNCHANGED <<sigVars, cdVars, hbVars, regVars, hsVars, linkVars>>
  /\ sendClosure[id].pc = "yield"
  /\ e.stop = "queue-full" => sendClosure[id].queueFull < MaxQueueFull
  /\ AppCommit(pumpLoop(AppState, id, e))

\* dc.onclose of an outgoing file channel.
Tx_fileChannelClosed ==
  /\ UNCHANGED <<sigVars, cdVars, hbVars, regVars, hsVars, linkVars>>
  /\ fileTxChannels > 0
  /\ AppCommit([AppState EXCEPT !.fileTxChannels = @ - 1])

\* pc.ondatachannel for a file label: registerFileChannel
Rx_fileChannelOpened(i) ==
  /\ UNCHANGED <<sigVars, cdVars, hbVars, regVars, hsVars, linkVars>>
  /\ dcState = "open"
  /\ i \notin fileRxChannels
  /\ AppCommit([AppState EXCEPT !.fileRxChannels = @ \cup {i}])

\* The file-channel-closed branch cancelling for any stripe of the stream.
onFileChannelClosed_AnyStripe(S, i) ==
  IF S.receiving # "null" THEN cancelIncomingFile(S, S.receiving, FALSE) ELSE S

\* onPeerData: the file-channel-closed branch, for stripe i of the stream id
\* the current transfer was announced with (its dc.onclose has removed the
\* channel from the registry).
onFileChannelClosed(S, i) ==
  IF S.receiving # "null" /\ i = 0
  THEN cancelIncomingFile(S, S.receiving, FALSE)
  ELSE S

\* The file-meta branch without its test of peer.receiving.
onFileMeta_NoBusyTest(S, id, size) ==
  [S EXCEPT !.incoming[id] = [NoIncoming EXCEPT !.size = size],
            !.incomingFiles = @ \cup {id},
            !.receiving = id]

\* onPeerData: the file-meta branch.
onFileMeta(S, id, size) ==
  IF S.receiving # "null" THEN S
  ELSE [S EXCEPT !.incoming[id] = [NoIncoming EXCEPT !.size = size],
                 !.incomingFiles = @ \cup {id},
                 !.receiving = id]

\* The sending peer draws a new id for every file (startSend): an id is free
\* for an announcement when nothing here still refers to an earlier use of it.
RxFree(id) ==
  /\ id \notin incomingFiles
  /\ id \notin receivedFiles
  /\ id \notin acceptPending
  /\ id \notin pendingUiOps
  /\ receiving # id
  /\ ~incoming[id].writePromise
  /\ chunkAwait[1] # id

\* onPeerData: file-meta, for the first free id
Rx_onFileMeta(id, size) ==
  /\ UNCHANGED <<sigVars, cdVars, hbVars, regVars, hsVars, linkVars>>
  /\ dcState = "open"
  /\ RxFree(id)
  /\ \A o \in RxIds : RxFree(o) => \E i, j \in 1..Len(RxOrder) :
        RxOrder[i] = id /\ RxOrder[j] = o /\ i <= j
  /\ AppCommit(onFileMeta(AppState, id, size))

\* window.acceptFile(id) to the save-file picker.
Rx_acceptFile(id, supported) ==
  /\ UNCHANGED <<sigVars, cdVars, hbVars, regVars, hsVars, linkVars>>
  /\ id \notin acceptPending
  /\ AppCommit(IF id \notin incomingFiles \/ incoming[id].accepted THEN AppState
               ELSE IF incoming[id].writer # "null" THEN acceptFile_send(AppState, id)
               ELSE IF ~supported THEN AppState
               ELSE [AppState EXCEPT !.acceptPending = @ \cup {id}])

\* showSaveFilePicker and createWritable settle.
Rx_pickerSettled(id, ok) ==
  /\ UNCHANGED <<sigVars, cdVars, hbVars, regVars, hsVars, linkVars>>
  /\ id \in acceptPending
  /\ AppCommit(IF ~ok THEN [AppState EXCEPT !.acceptPending = @ \ {id}]
               ELSE acceptFile_send(
                      [AppState EXCEPT !.acceptPending = @ \ {id},
                                       !.incoming[id].writer = "open"], id))

\* The 700 ms interval of acceptFile.
Rx_acceptResendTick(id) ==
  /\ UNCHANGED <<sigVars, cdVars, hbVars, regVars, hsVars, linkVars>>
  /\ incoming[id].acceptResendTimer
  /\ AppCommit(
       IF id \notin incomingFiles \/ incoming[id].cancelled
       THEN [AppState EXCEPT !.incoming[id].acceptResendTimer = FALSE]
       ELSE IF incoming[id].acceptAcked \/ ~incoming[id].accepted
       THEN [AppState EXCEPT !.incoming[id].acceptResendTimer = FALSE]
       ELSE IF incoming[id].acceptResendAttempts + 1 > MaxAcceptResends
       THEN [AppState EXCEPT !.incoming[id].acceptResendAttempts = @ + 1,
                             !.incoming[id].acceptResendTimer = FALSE]
       ELSE acceptFile_sendAccept(
              [AppState EXCEPT !.incoming[id].acceptResendAttempts = @ + 1], id))

\* onPeerData: file-accept-ack
Rx_onFileAcceptAck(id) ==
  /\ UNCHANGED <<sigVars, cdVars, hbVars, regVars, hsVars, linkVars>>
  /\ dcState = "open"
  /\ AppCommit(IF id \notin incomingFiles THEN AppState
               ELSE [AppState EXCEPT !.incoming[id].acceptAcked = TRUE,
                                     !.incoming[id].acceptResendTimer = FALSE])

\* A frame of the transfer in the receiving slot leaves the file message
\* chain: handleFileFrame, then onPeerData's file-chunk branch.
Rx_onFileChunk(seq, uiReady) ==
  /\ UNCHANGED <<sigVars, cdVars, hbVars, regVars, hsVars, linkVars>>
  /\ fileRxChannels # {}
  /\ chunkAwait = NoAwait
  /\ receiving # "null" => seq < FrameCount(incoming[receiving].size)
  /\ AppCommit(onFileChunk(AppState, seq, uiReady))

\* writer.write(dataToWrite) settles.
Rx_writeSettled(id, ok, uiReady) ==
  /\ UNCHANGED <<sigVars, cdVars, hbVars, regVars, hsVars, linkVars>>
  /\ incoming[id].writePromise
  /\ AppCommit(writeSettled(AppState, id, ok, uiReady))

\* r.writer.close() of the file-chunk branch settles.
Rx_closeSettled(uiReady) ==
  /\ UNCHANGED <<sigVars, cdVars, hbVars, regVars, hsVars, linkVars>>
  /\ chunkAwait[2] = "close"
  /\ AppCommit(completeTail(
       [AppState EXCEPT
          !.incoming[chunkAwait[1]].writer = IF @ = "open" THEN "closed" ELSE @],
       chunkAwait[1], uiReady))

\* window.cancelReceive(id)
Rx_cancelReceive(id) ==
  /\ UNCHANGED <<sigVars, cdVars, hbVars, regVars, hsVars, linkVars>>
  /\ AppCommit(cancelIncomingFile(AppState, id, TRUE))

\* dc.onclose of the incoming file channel i: onPeerData file-channel-closed.
Rx_onFileChannelClosed(i) ==
  /\ UNCHANGED <<sigVars, cdVars, hbVars, regVars, hsVars, linkVars>>
  /\ i \in fileRxChannels
  /\ AppCommit(onFileChannelClosed([AppState EXCEPT !.fileRxChannels = @ \ {i}], i))

\* flushUiOps: the deferred end of a completed transfer.
Rx_flushUiOps ==
  /\ UNCHANGED <<sigVars, cdVars, hbVars, regVars, hsVars, linkVars>>
  /\ pendingUiOps # {}
  /\ AppCommit([AppState EXCEPT !.incomingFiles = @ \ pendingUiOps,
                                !.pendingUiOps = {}])

\* dc.onclose of the control channel: PeerClient, then onPeerStatus.
PeerClient_ctrlOnClose ==
  /\ UNCHANGED <<sigVars, cdVars, regVars, hsVars, linkVars>>
  /\ ctrlOnClose_peer
  /\ AppCommit(onPeerStatus([AppState EXCEPT !.dcOpen = FALSE], "disconnected"))

\* pc.onconnectionstatechange
PeerClient_onConnectionStateChange(s) ==
  /\ UNCHANGED othersThanHb
  /\ onConnectionStateChange_peer(s)

\* onPeerStatus(status), the onStatusChange callback, for a status that
\* PeerClient reports while the control channel stays as it is.
App_onPeerStatus(st) ==
  /\ UNCHANGED <<sigVars, cdVars, hbVars, regVars, hsVars, linkVars>>
  /\ AppCommit(onPeerStatus(AppState, st))

HbNext ==
  \/ \E o \in BOOLEAN : PeerClient_setupPC(o)
  \/ PeerClient_handleDataChannel
  \/ PeerClient_ctrlOnOpen
  \/ PeerClient_ctrlOnClose
  \/ \E s \in PcStates : PeerClient_onConnectionStateChange(s)
  \/ PeerClient_heartbeatTick
  \/ \E k \in CtrlKinds : PeerClient_handleCtrlMessage(k)
  \/ \E w \in BOOLEAN : PeerClient_handleFileFrame_hb(w)
  \/ HbClock

SendNext ==
  \/ \E id \in TxIds : Tx_startSend(id)
  \/ \E id \in TxIds : Tx_cancelSend(id)
  \/ \E id \in TxIds : App_onFileCancel(id)
  \/ \E id \in TxIds, e \in PumpEnvs : Tx_onFileAccept(id, e)
  \/ \E id \in TxIds : Tx_onFileDone(id)
  \/ \E striping \in BOOLEAN : Tx_onHello(striping)
  \/ \E id \in TxIds : Tx_capsTimeout(id)
  \/ \E id \in TxIds, ok \in BOOLEAN, e \in PumpEnvs : Tx_channelsSettled(id, ok, e)
  \/ \E id \in TxIds : Tx_acceptTimeout(id)
  \/ \E id \in TxIds : Tx_doneTimeout(id)
  \/ \E id \in TxIds, e \in PumpEnvs : Tx_bufferWaitSettled(id, e)
  \/ \E id \in TxIds, e \in PumpEnvs : Tx_yieldResumed(id, e)
  \/ Tx_fileChannelClosed
  \/ PeerClient_ctrlOnClose
  \/ \E st \in PcStates : App_onPeerStatus(st)

RecvNext ==
  \/ \E i \in RxStripes : Rx_fileChannelOpened(i)
  \/ \E id \in RxIds, size \in RxSizes : Rx_onFileMeta(id, size)
  \/ \E id \in RxIds, supported \in BOOLEAN : Rx_acceptFile(id, supported)
  \/ \E id \in RxIds, ok \in BOOLEAN : Rx_pickerSettled(id, ok)
  \/ \E id \in RxIds : Rx_acceptResendTick(id)
  \/ \E id \in RxIds : Rx_onFileAcceptAck(id)
  \/ \E seq \in 0..(FrameCount(MaxRxBytes) - 1), uiReady \in BOOLEAN :
        Rx_onFileChunk(seq, uiReady)
  \/ \E id \in RxIds, ok \in BOOLEAN, uiReady \in BOOLEAN : Rx_writeSettled(id, ok, uiReady)
  \/ \E uiReady \in BOOLEAN : Rx_closeSettled(uiReady)
  \/ \E id \in RxIds : Rx_cancelReceive(id)
  \/ \E id \in RxIds : App_onFileCancel(id)
  \/ \E i \in RxStripes : Rx_onFileChannelClosed(i)
  \/ Rx_flushUiOps
  \/ PeerClient_ctrlOnClose
  \/ \E st \in PcStates : App_onPeerStatus(st)

\* PeerClient right after the control channel opened.
HbConnected ==
  /\ dcState = "open"
  /\ hbTimer = TRUE
  /\ hbNextAt = 2 * HEARTBEAT_INTERVAL_MS
  /\ peerTimedOut = FALSE
  /\ lastPeerActivityAt = HEARTBEAT_INTERVAL_MS
  /\ hbNow = HEARTBEAT_INTERVAL_MS
  /\ remoteCaps = "null"
  /\ status = "connected"
  /\ hbEvent = "ctrl-open"
  /\ emitted = <<"connected">>
  /\ ctrlSent = <<"hello">>
  /\ ctrlFirst = "hello"

\* The codec at rest, with the transfer settings the user chose before.
CodecConfigured(fasts, unordereds) ==
  /\ cdHasComp = TRUE
  /\ \E fast \in fasts, unordered \in unordereds :
        webrtcConfig = [DefaultConfig(TRUE) EXCEPT !.useFastTransfer = fast,
                                                   !.useUnorderedFileChannel = unordered]
  /\ cdPhase = "idle"
  /\ cdDesc = NoDesc
  /\ cdGzipOk = FALSE
  /\ cdEmbedded = NoEnvelope
  /\ cdCode = <<>>
  /\ cdOut = NoneOut

\* The files ids were staged (handleFiles) while the connection was being
\* made; each has one of the given numbers of frames.
StagedInit(ids, frameCounts) ==
  /\ AppInitCommon
  /\ stagedFiles = ids
  /\ \E f \in [ids -> frameCounts] :
        fileFrames = [id \in FileIds |-> IF id \in ids THEN f[id] ELSE 0]

\* Two files of MaxTxFrames frames each, on a browser that reports nothing
\* about the device.
SendInit ==
  /\ StagedInit(TxIds, {MaxTxFrames})
  /\ deviceMemory = 0
  /\ hardwareConcurrency = 0
  /\ maxMessageSize = 0

\* One file, empty or of MaxTxFrames frames, on any of the devices.
PumpInit ==
  /\ StagedInit({"A"}, {0, MaxTxFrames})
  /\ deviceMemory \in DeviceMemories
  /\ hardwareConcurrency \in HardwareConcurrencies
  /\ maxMessageSize \in MaxMessageSizes

RecvInit == AppParked


(***************************************************************************)
(*            PeerClient: the file channel registry (peerClient.js)        *)
(***************************************************************************)
MaxDcs == 3                       \* data channels made during one connection
fileTxId == <<"a">>               \* this.fileTxId: a random base-36 token
Prefixes == {<<"a">>, <<"b">>, <<" ", "a", " ">>, <<" ">>}
NoDc == 0
DcStates == {"connecting", "open", "closed"}
Digits == <<"0", "1", "2", "3", "4", "5", "6", "7", "8", "9">>

\* this.fileChannels and the RTCDataChannel objects it may refer to
Registry == [fileChannels |-> fileChannels, dcs |-> dcs]

\* fileStreamIdForIndex(baseId, index)
fileStreamIdForIndex(baseId, index) ==
  LET base == Trim(baseId) IN
  IF base = <<>> THEN <<>>
  ELSE IF index <= 0 THEN base
  ELSE base \o <<":">> \o <<Digits[index + 1]>>

\* The stream ids a channel label can carry: ours and the peer's.
ChanIds == {fileStreamIdForIndex(fileTxId, i) : i \in 0..(MaxStripes - 1)}
             \cup {<<"a", "b">>, <<"b">>}

\* dc.close(): the close event is dispatched later
dcClose(R, h) ==
  IF R.dcs[h].readyState = "closed" THEN R
  ELSE [R EXCEPT !.dcs[h].readyState = "closed", !.dcs[h].closeEvent = TRUE]

\* registerFileChannel(fileId, dc)
registerFileChannel(R, fileId, h) ==
  LET trimmedId == Trim(fileId)
      prev == R.fileChannels[trimmedId]
      R1 == IF prev # NoDc /\ prev # h THEN dcClose(R, prev) ELSE R
  IN IF trimmedId = <<>> THEN R
     ELSE [R1 EXCEPT !.fileChannels[trimmedId] = h]

\* openFileChannel(transferId), up to the await of the channel's open event
openFileChannel(R, transferId) ==
  LET id == Trim(transferId)
      existing == R.fileChannels[id]
      R1 == IF existing # NoDc
            THEN [dcClose(R, existing) EXCEPT !.fileChannels[id] = NoDc]
            ELSE R
      R2 == [R1 EXCEPT !.dcs = Append(@, [label |-> id,
                                         readyState |-> "connecting",
                                         closeEvent |-> FALSE])]
  IN IF existing # NoDc /\ R.dcs[existing].readyState \in {"open", "connecting"}
     THEN R
     ELSE registerFileChannel(R2, id, Len(R2.dcs))

\* ensureFileTxChannels({count}): openFileChannel for the ids of indexes
\* from..count-1, in order
RECURSIVE openFrom(_, _, _)
openFrom(R, from, count) ==
  IF from >= count THEN R
  ELSE openFrom(openFileChannel(R, fileStreamIdForIndex(fileTxId, from)),
                from + 1, count)

ensureFileTxChannels(R, count) == openFrom(R, 0, IF count < 1 THEN 1 ELSE count)

\* closeFileChannel(transferId)
closeFileChannel(R, transferId) ==
  LET dc == R.fileChannels[transferId] IN
  IF dc = NoDc THEN R
  ELSE [dcClose(R, dc) EXCEPT !.fileChannels[transferId] = NoDc]

RegisteredIds(R) == {id \in DOMAIN R.fileChannels : R.fileChannels[id] # NoDc}

RECURSIVE closeEach(_, _)
closeEach(R, ids) ==
  IF ids = {} THEN R
  ELSE LET id == CHOOSE x \in ids : TRUE
       IN closeEach(closeFileChannel(R, id), ids \ {id})

\* closeFileChannelsByPrefix(prefix) with the test on the colon left out
closeFileChannelsByPrefix_AnyPrefix(R, prefix) ==
  LET base == Trim(prefix) IN
  IF base = <<>> THEN R
  ELSE closeEach(R, {id \in RegisteredIds(R) : id = base \/ StartsWith(id, base)})

\* closeFileChannelsByPrefix(prefix)
closeFileChannelsByPrefix(R, prefix) ==
  LET base == Trim(prefix) IN
  IF base = <<>> THEN R
  ELSE closeEach(R, {id \in RegisteredIds(R) :
                       id = base \/ StartsWith(id, base \o <<":">>)})

\* setupPC() and close(): every file channel is closed and the map cleared
clearFileChannels(R) ==
  [closeEach(R, RegisteredIds(R)) EXCEPT
     !.fileChannels = [id \in DOMAIN R.fileChannels |-> NoDc]]

\* dc.onclose as set by registerFileChannel
fileChannel_onclose(R, h) ==
  LET id == R.dcs[h].label
      R1 == [R EXCEPT !.dcs[h].closeEvent = FALSE]
  IN IF R.fileChannels[id] = h THEN [R1 EXCEPT !.fileChannels[id] = NoDc] ELSE R1

RegCommit(R) ==
  /\ fileChannels' = R.fileChannels
  /\ dcs' = R.dcs

\* Nothing travels: the peer is the environment.
LinkParked ==
  /\ toRx = <<>>
  /\ toTx = <<>>
  /\ fileChain = <<>>
  /\ lastFrame = <<>>

RegParked ==
  /\ fileChannels = [id \in ChanIds |-> NoDc]
  /\ dcs = <<>>

RegInit == RegParked

PeerClient_ensureFileTxChannels(count) ==
  /\ Len(dcs) + count <= MaxDcs
  /\ RegCommit(ensureFileTxChannels(Registry, count))
  /\ UNCHANGED othersThanReg

\* handleDataChannel(dc) for a channel whose label carries the file prefix
PeerClient_handleDataChannel_file(id) ==
  /\ Len(dcs) < MaxDcs
  /\ LET R == [Registry EXCEPT !.dcs = Append(@, [label |-> id,
                                                  readyState |-> "open",
                                                  closeEvent |-> FALSE])]
     IN RegCommit(registerFileChannel(R, id, Len(R.dcs)))
  /\ UNCHANGED othersThanReg

PeerClient_resetFileTxChannel ==
  /\ RegCommit(closeFileChannelsByPrefix(Registry, fileTxId))
  /\ UNCHANGED othersThanReg

PeerClient_closeFileChannelsByPrefix(prefix) ==
  /\ RegCommit(closeFileChannelsByPrefix(Registry, prefix))
  /\ UNCHANGED othersThanReg

PeerClient_setupPC_fileChannels ==
  /\ RegCommit(clearFileChannels(Registry))
  /\ UNCHANGED othersThanReg

\* the browser: a connecting channel opens
Dc_open(h) ==
  /\ h \in DOMAIN dcs
  /\ dcs[h].readyState = "connecting"
  /\ dcs' = [dcs EXCEPT ![h].readyState = "open"]
  /\ UNCHANGED <<fileChannels, othersThanReg>>

\* the browser: the peer or the transport closes a channel
Dc_closed(h) ==
  /\ h \in DOMAIN dcs
  /\ dcs[h].readyState # "closed"
  /\ RegCommit(dcClose(Registry, h))
  /\ UNCHANGED othersThanReg

\* the browser dispatches the close event
Dc_onclose(h) ==
  /\ h \in DOMAIN dcs
  /\ dcs[h].closeEvent
  /\ RegCommit(fileChannel_onclose(Registry, h))
  /\ UNCHANGED othersThanReg

RegNext ==
  \/ \E count \in 1..MaxStripes : PeerClient_ensureFileTxChannels(count)
  \/ \E id \in ChanIds : PeerClient_handleDataChannel_file(id)
  \/ PeerClient_resetFileTxChannel
  \/ \E prefix \in Prefixes : PeerClient_closeFileChannelsByPrefix(prefix)
  \/ PeerClient_setupPC_fileChannels
  \/ \E h \in 1..MaxDcs : Dc_open(h)
  \/ \E h \in 1..MaxDcs : Dc_closed(h)
  \/ \E h \in 1..MaxDcs : Dc_onclose(h)

(***************************************************************************)
(*          The handshake over the signaling channel (part_000)            *)
(***************************************************************************)
HsParked ==
  /\ hsRole = "none"
  /\ lastOffer = <<>>
  /\ lastAnswer = <<>>
  /\ hsDecoding = <<>>
  /\ hsPeerCalls = <<>>
  /\ pcRemote = NoDesc
  /\ hsSent = <<>>
  /\ currentOfferSignal = <<>>

MaxHsPending == 2          \* handler calls parked at an await at one time
TypePranswer == <<"p", "r", "a", "n", "s", "w", "e", "r">>

\* What encodeSignal makes of a description under the default settings.
CodeOf(type, sdp) ==
  encodeSignal([type |-> type, sdp |-> sdp], DefaultConfig(TRUE), TRUE, FALSE).code

\* The contents a signal message of the room can carry: offers and answers of
\* this peer and of others, the same answer padded with a blank, a
\* provisional answer, text that is no code, and a missing content.
HsCodes ==
  {CodeOf(TypeOffer, <<"\n">>), CodeOf(TypeOffer, <<"\\">>),
   CodeOf(TypeAnswer, <<"\n">>),
   <<" ">> \o CodeOf(TypeAnswer, <<"\n">>),
   CodeOf(TypePranswer, <<"\n">>),
   <<"x">>, <<>>}

\* JSON.parse(raw): the messages of the room after parsing, "unparseable"
\* when JSON.parse throws
HsMessages ==
  {[type |-> "signal", content |-> c] : c \in HsCodes}
    \cup {[type |-> t, content |-> <<>>] : t \in {"join", "leave", "unparseable"}}

SignalMessage(code) == [type |-> "signal", content |-> code]

\* peer.encodeSignal(this.pc.localDescription) under the current settings
peerEncodeLocal(t, gzipWorks) ==
  encodeSignal([type |-> t, sdp |-> <<"\n">>], webrtcConfig, cdHasComp, gzipWorks)

\* trySendOfferSignal(): what it hands to signaling.send
trySendOfferSignal(offer) ==
  IF offer = <<>> THEN <<>>
  ELSE IF ~isConnected THEN <<>>
  ELSE <<SignalMessage(offer)>>

\* The tests of the onMessage handler after decodeSignal returned decoded for
\* signalCode, without the test of the decoded type
takesSignal_AnyType(isSender, decoded, signalCode) ==
  /\ decoded.kind = "ok"
  /\ IF isSender THEN signalCode # lastAnswer ELSE signalCode # lastOffer

\* The tests of the onMessage handler after decodeSignal returned decoded for
\* signalCode: TRUE when the handler goes on to peer.applyAnswer (sender) or
\* peer.createAnswer (receiver)
takesSignal(isSender, decoded, signalCode) ==
  /\ decoded.kind = "ok"
  /\ IF isSender
     THEN decoded.type = TypeAnswer /\ signalCode # lastAnswer
     ELSE decoded.type = TypeOffer /\ signalCode # lastOffer

RemoveAt(seq, i) == SubSeq(seq, 1, i - 1) \o SubSeq(seq, i + 1, Len(seq))

\* signaling.onMessage(raw), up to its first await
Hs_onMessage(msg) ==
  /\ hsRole # "none"
  /\ IF msg.type = "signal" /\ msg.content # <<>>
     THEN /\ Len(hsDecoding) < MaxHsPending
          /\ hsDecoding' = Append(hsDecoding, msg.content)
          /\ hsSent' = <<>>
     ELSE /\ hsDecoding' = hsDecoding
          /\ hsSent' = IF msg.type = "join" /\ hsRole = "sender"
                       THEN trySendOfferSignal(currentOfferSignal)
                       ELSE <<>>
  /\ UNCHANGED <<hsRole, lastOffer, lastAnswer, hsPeerCalls, pcRemote,
                 currentOfferSignal>>
  /\ UNCHANGED <<sigVars, othersThanHs>>

\* signaling.onMessage(raw), from the answer of peer.decodeSignal to the next
\* await: the call of peer.applyAnswer or peer.createAnswer, which begin with
\* a decodeSignal of their own
Hs_onDecoded(i) ==
  /\ i \in DOMAIN hsDecoding
  /\ LET signalCode == hsDecoding[i]
         decoded == decodeSignal(signalCode, cdHasComp)
         isSender == hsRole = "sender"
         taken == takesSignal(isSender, decoded, signalCode)
     IN /\ taken => Len(hsPeerCalls) < MaxHsPending
        /\ hsDecoding' = RemoveAt(hsDecoding, i)
        /\ lastAnswer' = IF taken /\ isSender THEN signalCode ELSE lastAnswer
        /\ lastOffer' = IF taken /\ ~isSender THEN signalCode ELSE lastOffer
        /\ hsPeerCalls' = IF taken THEN Append(hsPeerCalls, signalCode)
                          ELSE hsPeerCalls
  /\ hsSent' = <<>>
  /\ UNCHANGED <<hsRole, pcRemote, currentOfferSignal>>
  /\ UNCHANGED <<sigVars, othersThanHs>>

\* peer.applyAnswer(answerCode) after its decodeSignal: setRemoteDescription
\* takes the description or rejects, and the handler logs the error
Hs_applyAnswerSettled(i, ok) ==
  /\ hsRole = "sender"
  /\ i \in DOMAIN hsPeerCalls
  /\ LET decoded == decodeSignal(hsPeerCalls[i], cdHasComp) IN
       pcRemote' = IF ok /\ decoded.kind = "ok"
                   THEN [type |-> decoded.type, sdp |-> decoded.sdp]
                   ELSE pcRemote
  /\ hsPeerCalls' = RemoveAt(hsPeerCalls, i)
  /\ hsSent' = <<>>
  /\ UNCHANGED <<hsRole, lastOffer, lastAnswer, hsDecoding, currentOfferSignal>>
  /\ UNCHANGED <<sigVars, othersThanHs>>

\* peer.createAnswer(offerCode) after its decodeSignal: setupPC(), then
\* setRemoteDescription, createAnswer, setLocalDescription, the ICE wait and
\* encodeSignal, and the handler's signaling.send of the answer; or one of
\* them rejects and the handler logs the error
Hs_createAnswerSettled(i, ok, gzipWorks) ==
  /\ hsRole = "receiver"
  /\ i \in DOMAIN hsPeerCalls
  /\ LET decoded == decodeSignal(hsPeerCalls[i], cdHasComp)
         went == ok /\ decoded.kind = "ok"
         answer == peerEncodeLocal(TypeAnswer, gzipWorks)
     IN /\ pcRemote' = IF went
                       THEN [type |-> decoded.type, sdp |-> decoded.sdp]
                       ELSE NoDesc
        /\ hsSent' = IF went /\ answer.kind = "ok"
                     THEN <<SignalMessage(answer.code)>>
                     ELSE <<>>
  /\ hsPeerCalls' = RemoveAt(hsPeerCalls, i)
  /\ setupPC(FALSE)
  /\ RegCommit(clearFileChannels(Registry))
  /\ UNCHANGED <<hsRole, lastOffer, lastAnswer, hsDecoding, currentOfferSignal>>
  /\ UNCHANGED <<sigVars, cdVars, appVars, linkVars>>

\* startFlow("send") after peer.createOffer() returned the code
Hs_offerCreated(gzipWorks) ==
  /\ hsRole = "sender"
  /\ currentOfferSignal = <<>>
  /\ LET offer == peerEncodeLocal(TypeOffer, gzipWorks)
     IN /\ offer.kind = "ok"
        /\ currentOfferSignal' = offer.code
        /\ hsSent' = trySendOfferSignal(offer.code)
  /\ UNCHANGED <<hsRole, lastOffer, lastAnswer, hsDecoding, hsPeerCalls, pcRemote>>
  /\ UNCHANGED <<sigVars, othersThanHs>>

HsNext ==
  \/ \E msg \in HsMessages : Hs_onMessage(msg)
  \/ \E i \in 1..MaxHsPending : Hs_onDecoded(i)
  \/ \E i \in 1..MaxHsPending, ok \in BOOLEAN : Hs_applyAnswerSettled(i, ok)
  \/ \E i \in 1..MaxHsPending, ok \in BOOLEAN, gzipWorks \in BOOLEAN :
        Hs_createAnswerSettled(i, ok, gzipWorks)
  \/ \E gzipWorks \in BOOLEAN : Hs_offerCreated(gzipWorks)

\* setupSignalingHandlers(isSender) has run and signaling.connect(room) was
\* called; the subscription is confirmed or not yet
SigJoined(connected) ==
  /\ channel = "123456" /\ roomId = "123456" /\ isConnected = connected
  /\ lastErrorAt = 0 /\ lastErrorMsg = "" /\ sigNow = SigTickMs
  /\ sigInflight = 0 /\ onMessageLog = {} /\ selfSeen = FALSE
  /\ onErrorLast = <<>> /\ onOpenSeen = connected
  /\ onErrorPrev = <<>> /\ sigEvent = "none"

\* the sender's PeerClient after the synchronous part of createOffer()
HbOffering ==
  /\ dcState = "connecting"
  /\ hbTimer = FALSE
  /\ hbNextAt = 0
  /\ peerTimedOut = FALSE
  /\ lastPeerActivityAt = 0
  /\ hbNow = HEARTBEAT_INTERVAL_MS
  /\ remoteCaps = "null"
  /\ status = "new"
  /\ hbEvent = "setupPC"
  /\ emitted = <<>>
  /\ ctrlSent = <<>>
  /\ ctrlFirst = "null"

HsInit ==
  /\ hsRole \in {"sender", "receiver"}
  /\ lastOffer = <<>>
  /\ lastAnswer = <<>>
  /\ hsDecoding = <<>>
  /\ hsPeerCalls = <<>>
  /\ pcRemote = NoDesc
  /\ hsSent = <<>>
  /\ currentOfferSignal = <<>>
  /\ IF hsRole = "sender" THEN HbOffering ELSE HbParked
  /\ \E connected \in BOOLEAN : SigJoined(connected)

(***************************************************************************)
(*       Two peers: a sending app and a receiving app over one link        *)
(***************************************************************************)
\* The sending app has no incoming transfer and the receiving app stages no
\* file: the outgoing half of the application state is the sending app's, the
\* incoming half the receiving app's, and every handler is applied to the
\* half of the app it runs in.  The files are sent over a single ordered file
\* channel (useFastTransfer and useUnorderedFileChannel off).
LinkFrames == 2        \* frames of each staged file
MaxToRx == 2           \* control messages of the sending app in flight
MaxChain == 3          \* frames in flight or in the file message chain

\* file.size of a staged file of n frames: the last frame is short.
SizeOfFrames(n) == IF n = 0 THEN 0 ELSE n * PeerChunkBytes - 1

\* What the browser does to one slice of the pump on this link.
\* One frame leaves in every slice of the pump; NoPump where no pump runs.
OneFrame == [allFull |-> FALSE, n |-> 1, stop |-> "deadline"]
LinkEnvs == {NoPump, OneFrame}

CtrlOf(out) == SelectSeq(out, LAMBDA m : m[1] # "frame")

FramesIn(out) == SelectSeq(out, LAMBDA m : m[1] = "frame")

\* The end of a handler of the sending app: its control messages and frames
\* go on the wire behind those already there.
LinkTx(S, tx) ==
  /\ UNCHANGED <<sigVars, cdVars, hbVars, regVars, hsVars>>
  /\ AppCommit(S)
  /\ toRx' = toRx \o CtrlOf(S.wireOut)
  /\ fileChain' = fileChain \o FramesIn(S.wireOut)
  /\ toTx' = tx
  /\ lastFrame' = <<>>

\* The end of a handler of the receiving app.  When it closed the file
\* channels (cancelIncomingFile), the frames that had not reached onmessage
\* are gone; those already in the file message chain stay.
LinkRx(S, rx, chain, frame) ==
  /\ UNCHANGED <<sigVars, cdVars, hbVars, regVars, hsVars>>
  /\ AppCommit(S)
  /\ toTx' = toTx \o S.wireOut
  /\ toRx' = rx
  /\ IF S.fileRxChannels = {} /\ fileRxChannels # {}
     THEN \E k \in 0..Len(chain) : fileChain' = SubSeq(chain, 1, k)
     ELSE fileChain' = chain
  /\ lastFrame' = frame

\* window.startSend(id) in the sending app
\* Every file is sent once: A first, B at any time before its file-meta.
Lk_startSend(id) ==
  /\ Len(toRx) < MaxToRx
  /\ id \in stagedFiles
  /\ id = "A" => wireOwner = "null"
  /\ wireOwner # "B"
  /\ LinkTx(IF id \notin stagedFiles \/ dcState # "open" THEN AppState
            ELSE enqueueOutgoingFile(AppState, id), toTx)

\* window.cancelSend(id) in the sending app
Lk_cancelSend(id) ==
  /\ Len(toRx) < MaxToRx
  /\ LinkTx(cancelOutgoingFile(AppState, id, TRUE), toTx)

\* ensureFileTxChannels settles; the receiving app's ondatachannel has
\* registered the channel by then.
Lk_channelsSettled(id, ok, e) ==
  /\ sendClosure[id].pc \in {"chan", "chan-closed"}
  /\ sendClosure[id].pc = "chan-closed" <=> ~ok
  /\ e = IF ok /\ id \in fileAcceptEarly /\ ~sendClosure[id].aborted
         THEN OneFrame ELSE NoPump
  /\ Len(fileChain) + e.n <= MaxChain
  /\ LinkTx(IF ok
            THEN afterChannels(
                   [AppState EXCEPT
                      !.fileTxChannels = Max(@, sendClosure[id].streamCount),
                      !.fileRxChannels = @ \cup {0}], id, e)
            ELSE doSendFile_finally(AppState, id, "channel-open-error"), toTx)

\* A buffer wait or yieldToMain of the pump resolves.
Lk_pumpResumed(id, e) ==
  /\ sendClosure[id].pc \in {"empty-wait", "bufwait", "drainwait", "yield"}
  /\ e = OneFrame
  /\ Len(fileChain) + e.n <= MaxChain
  /\ LinkTx(IF sendClosure[id].pc = "empty-wait" THEN sendEmptyFrame(AppState, id, e)
            ELSE IF sendClosure[id].pc = "drainwait" THEN afterDrain(AppState, id, e)
            ELSE pumpLoop(AppState, id, e), toTx)

\* The 10 minute timer of waitForFileAccept.
Lk_acceptTimeout(id) ==
  /\ sendClosure[id].pc = "accept"
  /\ id \in fileAcceptWaiters
  /\ LinkTx(doSendFile_finally([AppState EXCEPT !.fileAcceptWaiters = @ \ {id}], id,
                               "accept-timeout"), toTx)

\* onPeerData of the sending app for the next control message of the
\* receiving app.
Lk_senderCtrl(e) ==
  /\ toTx # <<>>
  /\ Len(toRx) < MaxToRx
  /\ Len(fileChain) + e.n <= MaxChain
  /\ LET m == Head(toTx)
         id == m[2]
     IN /\ e = IF m[1] = "file-accept" /\ id \in fileAcceptWaiters
                THEN OneFrame ELSE NoPump
        /\ LinkTx(CASE m[1] = "file-accept" ->
                         PeerClient_send(resolveFileAccept(AppState, id, e),
                                         <<"file-accept-ack", id>>)
                    [] m[1] = "file-done" -> resolveFileDone(AppState, id)
                    [] OTHER -> cancelOutgoingFile(AppState, id, FALSE),
                  Tail(toTx))

\* onPeerData of the receiving app for the next control message of the
\* sending app.  An id is announced again only when nothing in the receiving
\* app refers to its earlier transfer.
Lk_receiverCtrl ==
  /\ toRx # <<>>
  /\ LET m == Head(toRx)
         id == m[2]
     IN /\ m[1] = "file-meta" => receiving # "null" \/ RxFree(id)
        /\ LinkRx(CASE m[1] = "file-meta" ->
                         onFileMeta(AppState, id, SizeOfFrames(fileFrames[id]))
                    [] m[1] = "file-cancel" -> cancelIncomingFile(AppState, id, FALSE)
                    [] OTHER ->
                         IF id \notin incomingFiles THEN AppState
                         ELSE [AppState EXCEPT !.incoming[id].acceptAcked = TRUE,
                                               !.incoming[id].acceptResendTimer = FALSE],
                  Tail(toRx), fileChain, <<>>)

\* The file message chain hands its next frame to onData: the file-chunk
\* branch of onPeerData.  The chain waits while that branch is parked.
Lk_frame ==
  /\ fileChain # <<>>
  /\ chunkAwait = NoAwait
  /\ LinkRx(onFileChunk(AppState, Head(fileChain)[3], TRUE), toRx, Tail(fileChain),
            Head(fileChain))

\* window.acceptFile(id) in the receiving app, to the save-file picker.
Lk_acceptFile(id) ==
  /\ id \notin acceptPending
  /\ LinkRx(IF id \notin incomingFiles \/ incoming[id].accepted THEN AppState
            ELSE IF incoming[id].writer # "null" THEN acceptFile_send(AppState, id)
            ELSE [AppState EXCEPT !.acceptPending = @ \cup {id}],
            toRx, fileChain, <<>>)

\* showSaveFilePicker and createWritable resolve.
Lk_pickerSettled(id) ==
  /\ id \in acceptPending
  /\ LinkRx(acceptFile_send([AppState EXCEPT !.acceptPending = @ \ {id},
                                             !.incoming[id].writer = "open"], id),
            toRx, fileChain, <<>>)

Lk_writeSettled(id) ==
  /\ incoming[id].writePromise
  /\ LinkRx(writeSettled(AppState, id, TRUE, TRUE), toRx, fileChain, <<>>)

Lk_closeSettled ==
  /\ chunkAwait[2] = "close"
  /\ LinkRx(completeTail(
              [AppState EXCEPT
                 !.incoming[chunkAwait[1]].writer = IF @ = "open" THEN "closed" ELSE @],
              chunkAwait[1], TRUE), toRx, fileChain, <<>>)

\* window.cancelReceive(id) in the receiving app
Lk_cancelReceive(id) ==
  /\ id \in incomingFiles
  /\ LinkRx(cancelIncomingFile(AppState, id, TRUE), toRx, fileChain, <<>>)

\* dc.onclose in the receiving app, after the sending app closed its file
\* channels: the file-channel-closed branch.
Lk_rxChannelClosed ==
  /\ fileTxChannels = 0
  /\ 0 \in fileRxChannels
  /\ LinkRx(onFileChannelClosed([AppState EXCEPT !.fileRxChannels = {}], 0),
            toRx, fileChain, <<>>)

\* dc.onclose in the sending app, after the receiving app closed the file
\* channels.
Lk_txChannelClosed ==
  /\ fileTxChannels > 0
  /\ fileRxChannels = {}
  /\ LinkTx([AppState EXCEPT !.fileTxChannels = 0], toTx)

LinkNext ==
  \/ \E id \in TxIds : Lk_startSend(id)
  \/ \E id \in TxIds : Lk_cancelSend(id)
  \/ \E id \in TxIds, ok \in BOOLEAN, e \in LinkEnvs : Lk_channelsSettled(id, ok, e)
  \/ \E id \in TxIds, e \in LinkEnvs : Lk_pumpResumed(id, e)
  \/ \E id \in TxIds : Lk_acceptTimeout(id)
  \/ \E e \in LinkEnvs : Lk_senderCtrl(e)
  \/ Lk_receiverCtrl
  \/ Lk_frame
  \/ \E id \in TxIds : Lk_acceptFile(id)
  \/ \E id \in TxIds : Lk_pickerSettled(id)
  \/ \E id \in TxIds : Lk_writeSettled(id)
  \/ Lk_closeSettled
  \/ \E id \in TxIds : Lk_cancelReceive(id)
  \/ Lk_rxChannelClosed
  \/ Lk_txChannelClosed

LinkInit ==
  /\ StagedInit(TxIds, {LinkFrames})
  /\ deviceMemory = 0
  /\ hardwareConcurrency = 0
  /\ maxMessageSize = 0
  /\ toRx = <<>>
  /\ toTx = <<>>
  /\ fileChain = <<>>
  /\ lastFrame = <<>>


(***************************************************************************)
(*        Sender: the jobs of the outgoing queue, to their settlement      *)
(***************************************************************************)
\* The steps of SendNext, with a pump slice that finds every channel full
\* or sends one frame.
JobsNext ==
  \/ \E id \in TxIds : Tx_startSend(id)
  \/ \E id \in TxIds : Tx_cancelSend(id)
  \/ \E id \in TxIds : App_onFileCancel(id)
  \/ \E id \in TxIds, e \in LinkEnvs : Tx_onFileAccept(id, e)
  \/ \E id \in TxIds : Tx_onFileDone(id)
  \/ Tx_onHello(FALSE)
  \/ \E id \in TxIds : Tx_capsTimeout(id)
  \/ \E id \in TxIds, ok \in BOOLEAN, e \in LinkEnvs : Tx_channelsSettled(id, ok, e)
  \/ \E id \in TxIds : Tx_acceptTimeout(id)
  \/ \E id \in TxIds : Tx_doneTimeout(id)
  \/ \E id \in TxIds, e \in LinkEnvs : Tx_bufferWaitSettled(id, e)
  \/ \E id \in TxIds, e \in LinkEnvs : Tx_yieldResumed(id, e)
  \/ Tx_fileChannelClosed
  \/ PeerClient_ctrlOnClose
  \/ \E st \in PcStates : App_onPeerStatus(st)

(***************************************************************************)
(*                 Sender: three files in the outgoing queue               *)
(***************************************************************************)
QueueIds == TxIds \cup {"X"}     \* the files staged in the sending app

QueueNext ==
  \/ \E id \in QueueIds : Tx_startSend(id)
  \/ \E id \in QueueIds : Tx_cancelSend(id)
  \/ \E id \in QueueIds : App_onFileCancel(id)
  \/ \E id \in QueueIds, e \in LinkEnvs : Tx_onFileAccept(id, e)
  \/ \E id \in QueueIds, ok \in BOOLEAN, e \in LinkEnvs : Tx_channelsSettled(id, ok, e)
  \/ \E id \in QueueIds : Tx_acceptTimeout(id)
  \/ \E id \in QueueIds : Tx_yieldResumed(id, OneFrame)

\* Three files of LinkFrames frames each, sent over one ordered file channel.
QueueInit ==
  /\ StagedInit(QueueIds, {LinkFrames})
  /\ deviceMemory = 0
  /\ hardwareConcurrency = 0
  /\ maxMessageSize = 0

(***************************************************************************)
(*                           Specifications                                *)
(***************************************************************************)
InitBus == SigInit /\ HbParked /\ CodecParked /\ AppParked /\ RegParked /\ HsParked /\ LinkParked
SpecBus == InitBus /\ [][SigNext]_vars

InitHb == HbInit /\ SigParked /\ CodecParked /\ AppParked /\ RegParked /\ HsParked /\ LinkParked
SpecHb == InitHb /\ [][HbNext]_vars

InitCodec == CodecInit /\ SigParked /\ HbParked /\ AppParked /\ RegParked /\ HsParked /\ LinkParked
SpecCodec == InitCodec /\ [][CodecNext]_vars

InitSend == SendInit /\ SigParked /\ HbConnected /\ CodecConfigured({TRUE}, {TRUE}) /\ RegParked /\ HsParked /\ LinkParked
SpecSend == InitSend /\ [][SendNext]_vars

InitPump == PumpInit /\ SigParked /\ HbConnected /\ CodecConfigured(BOOLEAN, BOOLEAN) /\ RegParked /\ HsParked /\ LinkParked
SpecPump == InitPump /\ [][SendNext]_vars

InitRecv == RecvInit /\ SigParked /\ HbConnected /\ CodecParked /\ RegParked /\ HsParked /\ LinkParked
SpecRecv == InitRecv /\ [][RecvNext]_vars

InitChan == RegInit /\ SigParked /\ HbConnected /\ CodecParked /\ AppParked /\ HsParked /\ LinkParked
SpecChan == InitChan /\ [][RegNext]_vars

InitHandshake == HsInit /\ CodecParked /\ AppParked /\ RegParked /\ LinkParked
SpecHandshake == InitHandshake /\ [][HsNext]_vars

InitLink == LinkInit /\ SigParked /\ HbConnected /\ CodecConfigured({FALSE}, {FALSE}) /\ RegParked /\ HsParked
SpecLink == InitLink /\ [][LinkNext]_vars

InitQueue == QueueInit /\ SigParked /\ HbConnected /\ CodecConfigured({FALSE}, {FALSE}) /\ RegParked /\ HsParked /\ LinkParked
SpecQueue == InitQueue /\ [][QueueNext]_vars

\* The timers and channel events of a doSendFile call that is parked in a
\* wait: the 1200 ms timer of waitForRemoteCaps, the open, close or timeout
\* of the connecting file channels, the 10 minute timers of waitForFileAccept
\* and waitForFileDone, and the end of a buffer wait or of yieldToMain.  A
\* buffer wait that ends by its timer with every channel still full is
\* entered again (sendFileChunks: continue); a fair channel drains, so the
\* wait ends with room in a channel sooner or later.
JobsFairness ==
  \A id \in TxIds :
    /\ WF_vars(Tx_capsTimeout(id))
    /\ WF_vars(\E ok \in BOOLEAN, e \in LinkEnvs : Tx_channelsSettled(id, ok, e))
    /\ WF_vars(Tx_acceptTimeout(id))
    /\ WF_vars(Tx_doneTimeout(id))
    /\ WF_vars(Tx_bufferWaitSettled(id, OneFrame))
    /\ WF_vars(Tx_yieldResumed(id, OneFrame))

SpecJobsFair == InitSend /\ [][JobsNext]_vars /\ JobsFairness


\* C6: no bus payload whose senderId equals the client's own id reaches the
\* onMessage handler, in any sequence of connect, send, deliveries and
\* disconnect.
C6_SelfEchoSuppressed ==
  \A m \in onMessageLog : m[1] # clientId

\* The bus has echoed our own payload and a peer's payload was delivered.
C6_Witness ==
  /\ selfSeen
  /\ <<"peer", "signal">> \in onMessageLog

\* A step of the heartbeat interval's callback.
HbTimerStep == hbEvent' = "hb-timer" /\ hbNextAt' # hbNextAt

\* A step that handled an inbound control message or a well-formed file frame.
HbInboundStep == hbNow' = hbNow /\ hbEvent' \in {"ctrl-message", "file-frame"}

C10_Surfaced ==
  (dcState = "open" /\ hbTimer
     /\ hbNow - lastPeerActivityAt > HEARTBEAT_TIMEOUT_MS + HEARTBEAT_INTERVAL_MS)
  => peerTimedOut

C10_Step ==
  /\ (HbTimerStep /\ dcState = "open" /\ ~peerTimedOut
        /\ hbNow - lastPeerActivityAt > HEARTBEAT_TIMEOUT_MS)
     => (peerTimedOut' /\ emitted' = <<"peer-timeout">> /\ status' = "peer-timeout")
  /\ (HbTimerStep /\ (peerTimedOut
                       \/ hbNow - lastPeerActivityAt <= HEARTBEAT_TIMEOUT_MS))
     => (emitted' = <<>> /\ status' = status)
  /\ HbTimerStep => (dcState' = dcState /\ hbTimer')
  /\ (HbTimerStep /\ dcState = "open") => ctrlSent' = <<"hb-ping">>
  /\ (HbInboundStep /\ peerTimedOut)
     => (~peerTimedOut' /\ emitted' = <<"connected">> /\ status' = "connected"
         /\ dcState' = dcState /\ hbTimer' = hbTimer)

\* C10: while the control channel is open, an idle period of more than 30 s
\* makes the heartbeat interval surface peer-timeout, once per idle period and
\* without closing the channel or stopping the heartbeat; the next inbound
\* control message or well-formed file frame returns the status to connected;
\* every heartbeat tick on an open channel sends hb-ping, timed out or not.
C10_HeartbeatTimeout == []C10_Surfaced /\ [][C10_Step]_vars

\* The peer timed out, a ping was still sent, and an inbound control message
\* brought the status back to connected.
C10_Witness ==
  /\ hbEvent = "ctrl-message" /\ emitted = <<"connected">>
  /\ status = "connected" /\ dcState = "open" /\ hbTimer
  /\ hbNow > HEARTBEAT_TIMEOUT_MS

HasKnownPrefix(str) == \E p \in KnownPrefixes : StartsWith(str, p)
IsGzipPrefixed(str) ==
  StartsWith(str, SIGNAL_PREFIX_GZIP) \/ StartsWith(str, SIGNAL_PREFIX_GZIP_B32)

C8_Prefixes ==
  /\ cdPhase \in {"decoded", "foreign"} =>
       /\ (cdOut = CodecError("Invalid code format"))
            <=> (Trim(cdCode) # <<>> /\ ~HasKnownPrefix(Trim(cdCode)))
       /\ cdCode \in WellFormedCodes =>
            IF IsGzipPrefixed(Trim(cdCode)) /\ ~cdHasComp
            THEN cdOut = CantDecompress
            ELSE cdOut = SampleDecoded
  /\ cdPhase \in {"encoded", "decoded"} =>
       IF webrtcConfig.useSignalCompression /\ cdHasComp /\ cdGzipOk
       THEN StartsWith(cdCode, SIGNAL_PREFIX_GZIP_B32)
       ELSE StartsWith(cdCode, SIGNAL_PREFIX_RAW_B32)

C8_Witness ==
  /\ cdPhase = "foreign"
  /\ StartsWith(cdCode, SIGNAL_PREFIX_GZIP)
  /\ cdOut = SampleDecoded

\* The receiver has sent file-done for id in the handler that just ran.
FileDoneEmitted(id) == <<"file-done", id>> \in Range(wireOut)

\* C1: when the receiver emits file-done for a transfer, the chunks it has
\* committed are the frames 0, 1, ..., N-1, in that order and each once,
\* whatever order the frames arrived in and however often one was repeated;
\* and a save file that was closed has taken every chunk that holds bytes, in
\* the same order.
C1_InOrderOnce ==
  \A id \in RxIds : FileDoneEmitted(id) =>
    LET r == incoming[id]
        all == [i \in 1..FrameCount(r.size) |-> i - 1]
    IN /\ r.commits = all
       /\ r.writer = "closed" =>
            r.written = SelectSeq(all, LAMBDA q : FrameBytes(r.size, q) > 0)

\* file-done for a file of three frames, of which one arrived ahead of its
\* turn and one arrived again after it was committed.
C1_Witness ==
  \E id \in RxIds :
    /\ FileDoneEmitted(id)
    /\ incoming[id].buffered /\ incoming[id].dropped
    /\ Len(incoming[id].commits) = FrameCount(MaxRxBytes)
    /\ incoming[id].writer = "closed"

TxActive(id) == sendClosure[id].pc # "none"

\* The file-meta and the frames among the messages of a handler.
IsFileData(m) == m[1] \in {"file-meta", "frame"}
TxDataOf(out) == SelectSeq(out, IsFileData)

C3_OneActive ==
  /\ Cardinality({id \in TxIds : TxActive(id)}) <= 1
  /\ Cardinality({id \in TxIds : outgoingTransfers[id] # "none"}) <= 1

C3_Step ==
  LET data == TxDataOf(wireOut') IN
  data # <<>> =>
    \* the file-meta and frames of one file are not interleaved with another's
    /\ \A i, j, k \in 1..Len(data) :
         (i < j /\ j < k /\ data[i][2] = data[k][2]) => data[j][2] = data[i][2]
    \* a file whose data went out before another's is finished, cancelled or failed
    /\ \A i \in 1..Len(data) :
         data[i][2] # data[Len(data)][2] => sendClosure'[data[i][2]].pc = "none"
    \* no other file's call was in progress all the while
    /\ \A a \in TxIds, i \in 1..Len(data) :
         a # data[i][2] => ~(TxActive(a) /\ sendClosure'[a].pc # "none")
    \* a file whose data went out after another's was not being sent before
    /\ \A i \in 1..Len(data) :
         data[i][2] # data[1][2] => sendClosure[data[i][2]].pc = "none"
    \* frames go out over the channels of the transfer that owns them
    /\ \A i \in 1..Len(data) :
         data[i][1] = "frame" => outgoingTransfers[data[i][2]] # "none"
                                   \/ outgoingTransfers'[data[i][2]] # "none"
                                   \/ data[i][2] \in sentFiles'

\* C3: at most one doSendFile call is in progress at any time, and whenever
\* the file-meta or a frame of one file is sent, every other file's call has
\* ended (its last frame sent, or cancelled, or failed) and sends nothing
\* more until it is started again.
C3_SerialOutgoing == []C3_OneActive /\ [][C3_Step]_vars

\* A frame of B goes out after every frame of A was sent.
C3_Witness ==
  /\ \E m \in Range(wireOut) : m[1] = "frame" /\ m[2] = "B"
  /\ "A" \in sentFiles
  /\ sendClosure["A"].pc = "none"

\* What the user and the peer can observe of the sending side.
TxObservable(S) ==
  [stagedFiles |-> S.stagedFiles, outgoingQueue |-> S.outgoingQueue,
   outgoingQueuedIds |-> S.outgoingQueuedIds,
   outgoingCancelledIds |-> S.outgoingCancelledIds,
   fileTxChannels |-> S.fileTxChannels]

\* C4: in every state, a second cancelOutgoingFile(id) right after the first
\* sends nothing and leaves the staged files, the queue and the open channels
\* as the first call left them.
C4_CancelOutgoingTwice ==
  \A id \in TxIds :
    LET once == [cancelOutgoingFile(AppState, id, TRUE) EXCEPT !.wireOut = <<>>]
        twice == cancelOutgoingFile(once, id, TRUE)
    IN /\ twice.wireOut = <<>>
       /\ TxObservable(twice) = TxObservable(once)

\* What the user and the peer can observe of the receiving side.
RxObservable(S) ==
  [incomingFiles |-> S.incomingFiles, receiving |-> S.receiving,
   receivedFiles |-> S.receivedFiles, incoming |-> S.incoming,
   fileRxChannels |-> S.fileRxChannels, acceptPending |-> S.acceptPending,
   chunkAwait |-> S.chunkAwait, pendingUiOps |-> S.pendingUiOps]

\* C5: in every state, a second cancelIncomingFile(id) right after the first
\* sends no file-cancel, closes no channel and changes nothing of any
\* transfer, with or without notifyPeer.
C5_CancelIncomingTwice ==
  \A id \in RxIds, notifyPeer \in BOOLEAN :
    LET once == [cancelIncomingFile(AppState, id, notifyPeer) EXCEPT !.wireOut = <<>>]
        twice == cancelIncomingFile(once, id, notifyPeer)
    IN /\ twice.wireOut = <<>>
       /\ RxObservable(twice) = RxObservable(once)

\* cancelIncomingFile(id) has just cancelled a transfer with a write in
\* flight, and told the peer.
C5_Witness ==
  \E id \in RxIds :
    /\ <<"file-cancel", id>> \in Range(wireOut)
    /\ id \notin incomingFiles /\ receiving = "null"
    /\ incoming[id].cancelled /\ incoming[id].writePromise
    /\ incoming[id].writer = "null"

\* The doSendFile(id) call has just met a queue-full error.
AtQueueFull(id) == sendClosure[id].pc = "drainwait"

\* C9 as stated: after a queue-full error the high watermark is at least
\* 1 MiB and at most half of what it was plus one chunk.
C9_AsStated ==
  \A id \in TxIds : AtQueueFull(id) =>
    /\ sendClosure[id].highWaterMark >= MiB
    /\ 2 * sendClosure[id].highWaterMark
         <= sendClosure[id].prevHigh + 2 * payloadChunkSize

\* C9: after a queue-full error the high watermark is at least 1 MiB and at
\* most the larger of 1 MiB and half of what it was, for every starting high
\* watermark and every number of queue-full errors in a row.
C9_HalvedToFloor ==
  \A id \in TxIds : AtQueueFull(id) =>
    /\ sendClosure[id].highWaterMark >= MiB
    /\ sendClosure[id].highWaterMark <= Max(MiB, sendClosure[id].prevHigh \div 2)

\* A queue-full error met with the high watermark at 1 MiB already.
C9_Witness ==
  \E id \in TxIds :
    /\ AtQueueFull(id)
    /\ sendClosure[id].prevHigh = MiB
    /\ sendClosure[id].queueFull = MaxQueueFull

(***************************************************************************)
(*                 Cancellation of an outgoing transfer                    *)
(***************************************************************************)
\* The awaits of doSendFile and sendFileChunks that are the blocking
\* primitives of a transfer: the capabilities wait, the accept wait, the
\* buffer waits and the done wait.
BlockingPrimitives == {"caps", "accept", "empty-wait", "bufwait", "drainwait", "done"}

\* C11: every blocking primitive honours the cancel token: no call stays
\* parked at the capabilities wait, the accept wait, a buffer wait or the done
\* wait once its controller has aborted.
C11_AbortedNotBlocked ==
  \A id \in FileIds :
     sendClosure[id].aborted => sendClosure[id].pc \notin BlockingPrimitives

\* The handler that just ran put this control message on the wire.
Emitted(kind, id) == <<kind, id>> \in Range(wireOut)

\* C12: a cancelled outgoing transfer emits file-cancel exactly when it had
\* already sent file-meta: cancelling an active transfer from this side sends
\* file-cancel iff its file-meta went out, a queued or merely staged file is
\* cancelled silently, and no step sends file-cancel for a transfer whose
\* file-meta was not sent, or file-meta for a call that was cancelled.
C12_CancelOf(id) == cancelOutgoingFile(AppState, id, TRUE)

C12_State ==
  \A id \in TxIds :
     <<"file-cancel", id>> \in Range(C12_CancelOf(id).wireOut)
        <=> outgoingTransfers[id] = "meta-sent"

C12_Step ==
  \A id \in TxIds :
     /\ <<"file-cancel", id>> \in Range(wireOut') => outgoingTransfers[id] = "meta-sent"
     /\ <<"file-meta", id>> \in Range(wireOut') => ~sendClosure[id].aborted

C12_FileCancelIffMetaSent == []C12_State /\ [][C12_Step]_vars

\* A transfer parked in the accept wait was just cancelled from this side,
\* and one cancelled before its file-meta stays silent.
C12_Witness ==
  /\ Emitted("file-cancel", "A")
  /\ <<"A", "AbortError">> \in settled
  /\ sendClosure["B"].pc = "chan"
  /\ Range(C12_CancelOf("B").wireOut) = {}

(***************************************************************************)
(*                          Loss of the connection                         *)
(***************************************************************************)
LostStatuses == {"disconnected", "failed", "closed"}

\* C13: on failed, closed or disconnected the handler leaves no waiter
\* (accept, done, capabilities, buffer) of a call that was pending, no
\* outgoing or incoming transfer that was active, sends no file-cancel and
\* leaves no file channel open.
C13_WaitersRejected(S) ==
  /\ S.fileAcceptWaiters = {}
  /\ S.fileDoneWaiters = {}
  /\ \A id \in FileIds :
        sendClosure[id].pc # "none" => S.sendClosure[id].pc \notin BlockingPrimitives

C13_TransfersCancelled(S) ==
  /\ \A id \in FileIds :
        outgoingTransfers[id] # "none" => S.outgoingTransfers[id] = "none"
  /\ S.incomingFiles = {}
  /\ S.receiving = "null"
  /\ \A id \in FileIds : <<"file-cancel", id>> \notin Range(S.wireOut)

C13_ChannelsClosed(S) == S.fileTxChannels = 0 /\ S.fileRxChannels = {}

C13_ConnectionLost ==
  \A st \in LostStatuses :
     LET S == onPeerStatus(AppState, st)
     IN C13_WaitersRejected(S) /\ C13_TransfersCancelled(S) /\ C13_ChannelsClosed(S)

(***************************************************************************)
(*                     Errors of the rendezvous client                     *)
(***************************************************************************)
\* C14: send(payload) either has the payload acknowledged by the bus or
\* surfaces an error through onError: no call returns without handing the
\* payload to the bus, and no failed call has its error swallowed.
C14_NoSilentDrop == sigEvent \notin {"returned", "suppressed"}

\* C15: onError is invoked at most once within any 4-second window for errors
\* with an identical message, whatever errors occur in between: a step that
\* invokes onError finds neither of the two calls before it made with the
\* same message less than ERROR_WINDOW_MS ago.
C15_Step ==
  onErrorLast' # onErrorLast =>
     \A c \in {onErrorLast, onErrorPrev} :
        c # <<>> => ~(c[1] = onErrorLast'[1] /\ sigNow - c[2] < ERROR_WINDOW_MS)

C15_OncePerWindow == [][C15_Step]_vars

(***************************************************************************)
(*                     Order on the control channel                        *)
(***************************************************************************)
\* C17: hello is the first message sent on the control channel after it
\* opens: whatever was sent first on the current channel is the hello, and no
\* hb-ping or hb-pong goes out on a channel whose hello has not been sent.
C17_HelloFirst ==
  /\ ctrlFirst \in {"null", "hello"}
  /\ (\E i \in DOMAIN ctrlSent : ctrlSent[i] \in {"hb-ping", "hb-pong"})
        => ctrlFirst = "hello"
  /\ dcState = "open" => ctrlFirst = "hello"

\* A ping of the peer was just answered on a channel that began with hello,
\* after this side's own pings.
C17_Witness ==
  /\ ctrlSent = <<"hb-pong">>
  /\ ctrlFirst = "hello"
  /\ hbNextAt > hbNow
  /\ hbNow > 2 * HEARTBEAT_INTERVAL_MS

(***************************************************************************)
(*                     A file-cancel from the receiver                     *)
(***************************************************************************)
\* onPeerData for file-cancel, as a function of the state.
onFileCancel(S, id) == cancelIncomingFile(cancelOutgoingFile(S, id, FALSE), id, FALSE)

FramesOf(out, id) == {i \in DOMAIN out : out[i][1] = "frame" /\ out[i][2] = id}

\* C16: when the sender observes file-cancel for an active outgoing transfer
\* (one whose file-meta went out), the handler sends nothing, closes the
\* stripe channels and aborts the call: the call ends at once with the
\* cancellation error, or it is parked in the pump's yield with its signal
\* aborted; an aborted call sends no further frame, and the parked pump ends
\* with the cancellation error when it resumes.
C16_State ==
  \A id \in TxIds :
     outgoingTransfers[id] = "meta-sent" =>
        LET S == onFileCancel(AppState, id)
        IN /\ \A i \in DOMAIN S.wireOut : S.wireOut[i][1] \notin {"file-cancel", "frame"}
           /\ S.fileTxChannels = 0
           /\ S.outgoingTransfers[id] # "none" \/ S.sendClosure[id].pc # "none"
                 => S.sendClosure[id].aborted /\ S.sendClosure[id].pc = "yield"
           /\ S.sendClosure[id].pc = "none" => <<id, "AbortError">> \in S.settled

C16_Step ==
  \A id \in TxIds :
     sendClosure[id].aborted =>
        /\ FramesOf(wireOut', id) = {}
        /\ (sendClosure[id].pc = "yield" /\ sendClosure'[id].pc # "yield")
              => <<id, "AbortError">> \in settled'

C18_EarlyOnlyActive ==
  \A id \in fileAcceptEarly : outgoingTransfers[id] # "none"

(***************************************************************************)
(*                        The accept resend loop                           *)
(***************************************************************************)
AcceptSentFor(out, id) == <<"file-accept", id>> \in Range(out)

\* C19: after the user accepts, the receiver emits file-accept and repeats it
\* for at most MaxAcceptResends attempts, and emits no file-accept for an id
\* whose accept was acknowledged (by file-accept-ack or a first frame) or
\* whose transfer has been cancelled.
C19_Bounded(id) ==
  AcceptSentFor(wireOut', id) =>
     /\ incoming'[id].accepted
     /\ incoming'[id].acceptResendAttempts <= MaxAcceptResends
     /\ incoming[id].accepted =>
           /\ incoming'[id].acceptResendAttempts = incoming[id].acceptResendAttempts + 1
           /\ ~incoming[id].acceptAcked

C19_NotCancelled(id) ==
  AcceptSentFor(wireOut', id) => ~incoming[id].cancelled /\ id \in incomingFiles

C19_Step == \A id \in RxIds : C19_Bounded(id) /\ C19_NotCancelled(id)

C19_AcceptResend == [][C19_Step]_vars

C19_BoundedOnly == [][\A id \in RxIds : C19_Bounded(id)]_vars

(***************************************************************************)
(*                    Failure of an outgoing transfer                      *)
(***************************************************************************)
\* The outcomes of a send that are neither completion nor cancellation.
IsFailure(outcome) == outcome \notin {"ok", "AbortError"}

FailuresOf(set, id) == {p \in set : p[1] = id /\ IsFailure(p[2])}

\* C20: when an outgoing transfer fails before completion, the handler in
\* which it fails emits file-cancel if the transfer's file-meta had been
\* sent, leaves no stripe channel open, and hands the error to the caller.
C20_Surfaced ==
  \A id \in TxIds :
     (sendClosure[id].pc # "none" /\ sendClosure'[id].pc = "none")
        => \E p \in settled' : p[1] = id

C20_CancelFired ==
  \A id \in TxIds :
     FailuresOf(settled', id) # {} =>
        /\ outgoingTransfers[id] = "meta-sent"
              => <<"file-cancel", id>> \in Range(wireOut')
        /\ fileTxChannels' = 0

C20_FailureCancels == [][C20_Surfaced /\ C20_CancelFired]_vars

C20_SurfacedOnly == [][C20_Surfaced]_vars

(***************************************************************************)
(*                    The frame a full queue refused                       *)
(***************************************************************************)
\* The frames of id in out, in the order they were sent.
FrameSeqsOf(out, id) ==
  LET IsFrame(m) == m[1] = "frame" /\ m[2] = id
      fs == SelectSeq(out, IsFrame)
  IN [i \in DOMAIN fs |-> fs[i][3]]

\* C21: the frames one step of a send hands to its channels carry the seq
\* numbers seq, seq + 1, ... of the call's counter, and the counter (from
\* which the offset is computed) advances by the frames the channel took and
\* by nothing else: a frame the queue refused leaves seq where it was, and
\* the send after the drain wait starts with that seq again.  So the seq
\* numbers of the accepted frames have no gap and no duplicate.
C21_Step ==
  \A id \in TxIds :
     LET sent == FrameSeqsOf(wireOut', id) IN
     /\ \A i \in DOMAIN sent : sent[i] = sendClosure[id].seq + i - 1
     /\ sendClosure'[id].pc # "none"
           => sendClosure'[id].seq = sendClosure[id].seq + Len(sent)
     /\ sendClosure'[id].queueFull > sendClosure[id].queueFull
           => sendClosure'[id].pc \in {"drainwait", "empty-wait"}

C21_RefusedFrameResent == [][C21_Step]_vars

\* The queue refused frame 0, the pump drained, and the slice after the drain
\* wait has just sent frame 0.
C21_Witness ==
  /\ sendClosure["A"].queueFull >= 1
  /\ sendClosure["A"].seq = 1
  /\ sendClosure["A"].pc = "yield"
  /\ FrameSeqsOf(wireOut, "A") = <<0>>

(***************************************************************************)
(*                     The frames of a completed send                      *)
(***************************************************************************)
\* The inner loop of sendFileChunks from (offset, seq) to the end of the
\* file: one frame per turn, its header and the slice it carries.
RECURSIVE sendLoop(_, _, _, _)
sendLoop(size, chunk, offset, seq) ==
  IF offset >= size THEN <<>>
  ELSE LET end == Min(offset + chunk, size)
           payloadLen == Max(0, end - offset)
       IN <<[seq |-> seq, offset |-> offset, len |-> payloadLen]>>
             \o sendLoop(size, chunk, end, seq + 1)

\* The frames without the empty-file path.
sendFileChunks_framesNoEmpty(size, chunk) == sendLoop(size, chunk, 0, 0)

\* The frames a send of a file of size bytes writes when nothing stops it.
sendFileChunks_frames(size, chunk) ==
  IF size = 0 THEN <<[seq |-> 0, offset |-> 0, len |-> 0]>>
  ELSE sendLoop(size, chunk, 0, 0)

\* File sizes around the multiples of the chunk size.
TxSizes(chunk) ==
  {k * chunk + d : k \in 0..MaxTxFrames, d \in {-1, 0, 1}} \cap Nat

RECURSIVE SumLen(_)
SumLen(fs) == IF fs = <<>> THEN 0 ELSE fs[1].len + SumLen(Tail(fs))

CeilDiv(a, b) == (a + b - 1) \div b

C22_Frames(size, chunk) ==
  LET fs == sendFileChunks_frames(size, chunk) IN
  IF size = 0 THEN fs = <<[seq |-> 0, offset |-> 0, len |-> 0]>>
  ELSE /\ Len(fs) = CeilDiv(size, chunk)
       /\ \A i \in DOMAIN fs :
             /\ fs[i].seq = i - 1
             /\ fs[i].offset = IF i = 1 THEN 0 ELSE fs[i - 1].offset + fs[i - 1].len
             /\ fs[i].len = Min(chunk, size - fs[i].offset)
       /\ SumLen(fs) = size

\* C22: with the chunk size the connection gives (getSendChunkSize less the
\* 8 header bytes), a completed send of a file of size S writes one frame
\* (seq 0, length 0) when S = 0, and otherwise ceil(S / C) frames with seq
\* 0, 1, ..., consecutive offsets, lengths min(C, S - offset), summing to S;
\* and the pump that has sent its last frame has sent as many frames as that.
C22_FramesOfSend ==
  /\ \A size \in TxSizes(payloadChunkSize) : C22_Frames(size, payloadChunkSize)
  /\ \A id \in TxIds :
        sendClosure[id].pc = "done" =>
           \E size \in TxSizes(payloadChunkSize) :
              Len(sendFileChunks_frames(size, payloadChunkSize)) = sendClosure[id].seq

\* A two-frame file whose last frame is short has been sent and waits for
\* file-done; a peer that reports its maximum message size.
C22_Witness ==
  /\ sendClosure["A"].pc = "done"
  /\ sendClosure["A"].seq = 2
  /\ maxMessageSize > 0
  /\ sendFileChunks_frames(2 * payloadChunkSize - 1, payloadChunkSize)[2].len
        = payloadChunkSize - 1

\* An empty file has been sent.
C22_WitnessEmpty ==
  /\ sendClosure["A"].pc = "done"
  /\ sendClosure["A"].seq = 1
  /\ fileFrames["A"] = 0

(***************************************************************************)
(*                     The header of a file frame                          *)
(***************************************************************************)
MaxTrailing == 3               \* bytes after the header of a tested frame
HeaderSeqs == {0, 1, 258}      \* seq fields of the tested frames

\* DataView.setUint32(at, v) and getUint32(at): four bytes, big-endian.
setUint32(v) ==
  <<(v \div 16777216) % 256, (v \div 65536) % 256, (v \div 256) % 256, v % 256>>

getUint32(data, at) ==
  data[at + 1] * 16777216 + data[at + 2] * 65536 + data[at + 3] * 256 + data[at + 4]

\* handleFileFrame(id, data) for a binary message: the file-chunk handed to
\* onData, unless the message is dropped.
handleFileFrame(data) ==
  IF Len(data) < FILE_FRAME_HEADER_BYTES
  THEN [dropped |-> TRUE, seq |-> 0, data |-> <<>>]
  ELSE LET seq == getUint32(data, 0)
           declaredLen == getUint32(data, 4)
           payloadLen == Max(0, Len(data) - FILE_FRAME_HEADER_BYTES)
           len == handleFileFrame_len(declaredLen, payloadLen)
       IN [dropped |-> FALSE, seq |-> seq,
           data |-> SubSeq(data, FILE_FRAME_HEADER_BYTES + 1,
                           FILE_FRAME_HEADER_BYTES + len)]

\* A message of a file channel: a header for (seq, len), then t bytes.
FileMessage(seq, len, t) == setUint32(seq) \o setUint32(len) \o [i \in 1..t |-> i]

C23_Takes(seq, len, t) ==
  LET chunk == handleFileFrame(FileMessage(seq, len, t))
  IN /\ ~chunk.dropped
     /\ chunk.seq = seq
     /\ chunk.data = [i \in 1..Min(len, t) |-> i]

\* C23: for every message of a file channel of at least 8 bytes the receiver
\* reads (seq, len) from the big-endian header and takes exactly
\* min(len, trailing bytes) bytes of what follows, also when len is 0 and
\* bytes follow.
C23_HeaderLen ==
  fileRxChannels # {} =>
     \A seq \in HeaderSeqs, len \in 0..MaxTrailing + 1, t \in 0..MaxTrailing :
        C23_Takes(seq, len, t)

\* The same for every header whose len is not 0, and for a bare header.
C23_NonZeroLen ==
  fileRxChannels # {} =>
     \A seq \in HeaderSeqs, len \in 0..MaxTrailing + 1, t \in 0..MaxTrailing :
        (len # 0 \/ t = 0) => C23_Takes(seq, len, t)

(***************************************************************************)
(*                     expectedSeq and pendingChunks                       *)
(***************************************************************************)
\* The state object file-meta creates.
FreshIncoming == {[NoIncoming EXCEPT !.size = size] : size \in RxSizes} \cup {NoIncoming}

C24_State ==
  \A id \in RxIds : \A k \in incoming[id].pendingChunks : k > incoming[id].expectedSeq

C24_Step ==
  \A id \in RxIds :
     \/ incoming'[id].expectedSeq >= incoming[id].expectedSeq
     \/ incoming'[id] \in FreshIncoming

\* C24: the expectedSeq of an incoming transfer's state never decreases (it
\* is 0 again only in the state object of a later announcement), and every
\* key of its pendingChunks map is greater than expectedSeq.
C24_ExpectedSeqMonotone == []C24_State /\ [][C24_Step]_vars

\* Frame 2 arrived ahead of its turn and is pending; frame 0 was committed.
C24_Witness ==
  /\ incoming["X"].expectedSeq = 1
  /\ incoming["X"].pendingChunks = {2}

\* Frames 1 and 2 were pending when frame 0 arrived, and were drained.
C24_WitnessDrained ==
  /\ incoming["X"].commits = <<0, 1, 2>>
  /\ incoming["X"].buffered
  /\ incoming["X"].pendingChunks = {}

(***************************************************************************)
(*                 A file-meta while a transfer is current                 *)
(***************************************************************************)
\* C25: a file-meta that arrives while an incoming transfer occupies
\* peer.receiving is ignored, whichever id and size it announces: the handler
\* creates no incoming transfer, leaves the state as it was, and sends
\* nothing.
C25_BusyMetaIgnored ==
  receiving # "null" =>
     \A id \in RxIds, size \in RxSizes :
        LET S == onFileMeta(AppState, id, size)
        IN /\ S.incomingFiles = incomingFiles
           /\ S.incoming = incoming
           /\ S.receiving = receiving
           /\ S.wireOut = <<>>
           /\ S = AppState

\* X is being received (a frame was committed) when the peer announces Y.
C25_Witness ==
  /\ receiving = "X"
  /\ incoming["X"].expectedSeq > 0
  /\ RxFree("Y")
  /\ "Y" \notin onFileMeta(AppState, "Y", MaxRxBytes).incomingFiles

(***************************************************************************)
(*                      When a send reports success                        *)
(***************************************************************************)
\* The last frame of id is among the messages out.
LastFrameIn(out, id) ==
  \E i \in DOMAIN out : out[i] = <<"frame", id, Max(1, fileFrames[id]) - 1>>

Succeeded(set, id) == <<id, "ok">> \in set

\* With unordered file channels the call that has written its last frame
\* waits, and succeeds only in the step that handles the peer's file-done.
C26_Unordered(id) ==
  sendClosure[id].waitAck =>
     /\ LastFrameIn(wireOut', id) =>
           ~Succeeded(settled', id) /\ sendClosure'[id].pc \in {"done", "none"}
     /\ Succeeded(settled', id) =>
           /\ sendClosure[id].pc = "done"
           /\ sendClosure[id].seq = Max(1, fileFrames[id])
           /\ Tx_onFileDone(id)

\* With ordered file channels the call succeeds in the step that writes its
\* last frame, and in no other.
C26_Ordered(id) ==
  (sendClosure[id].pc # "none" /\ ~sendClosure[id].waitAck) =>
     /\ sendClosure'[id].pc # "done"
     /\ LastFrameIn(wireOut', id) <=> Succeeded(settled', id)

\* C26: with unordered file channels success is reported only after a
\* file-done is received following the last chunk; with ordered channels it
\* is reported upon writing the last frame, without waiting.
C26_SuccessAfterDone == [][\A id \in TxIds : C26_Unordered(id) /\ C26_Ordered(id)]_vars

\* Unordered channels: the file-done for A has just been handled, after the
\* frames went out in earlier steps, and the send succeeded.
C26_Witness ==
  /\ webrtcConfig.useUnorderedFileChannel
  /\ fileFrames["A"] = MaxTxFrames
  /\ Succeeded(settled, "A")
  /\ FramesOf(wireOut, "A") = {}
  /\ "A" \in sentFiles

\* Ordered channels: the step that wrote the last frame reported success.
C26_WitnessOrdered ==
  /\ ~webrtcConfig.useUnorderedFileChannel
  /\ fileFrames["A"] = MaxTxFrames
  /\ Succeeded(settled, "A")
  /\ LastFrameIn(wireOut, "A")

(***************************************************************************)
(*                      The write queue of the sink                        *)
(***************************************************************************)
\* The queued chunks no batch has taken.
QueuedItems(r) == SubSeq(r.writeQueue, r.writeQueueStart + 1, Len(r.writeQueue))

\* The chunks with bytes among the committed ones, in commit order.
CommittedItems(r) == SelectSeq(r.commits, LAMBDA q : FrameBytes(r.size, q) > 0)

C27_Queue(r) ==
  /\ r.writePromise <=> r.inFlight # <<>>
  /\ r.written \o r.inFlight \o QueuedItems(r) = CommittedItems(r)
  /\ r.writeQueuedBytes = batchBytesOf(r, r.inFlight \o QueuedItems(r))
  /\ r.writeQueueStart <= Len(r.writeQueue)

C27_State == \A id \in RxIds : ~incoming[id].cancelled => C27_Queue(incoming[id])

C27_StateAll == \A id \in RxIds : C27_Queue(incoming[id])

\* A batch is handed to the writer only when none is in flight, or in the
\* step in which the one in flight settled and was counted as written.
C27_Step ==
  \A id \in RxIds :
     (incoming'[id].inFlight # <<>> /\ incoming'[id].inFlight # incoming[id].inFlight)
        => \/ incoming[id].inFlight = <<>>
           \/ incoming'[id].written = incoming[id].written \o incoming[id].inFlight

CancelledLocally(S, id) ==
  /\ id \notin S.incomingFiles
  /\ S.receiving = "null"
  /\ S.incoming[id].cancelled
  /\ \A i \in DOMAIN S.wireOut : S.wireOut[i][1] # "file-cancel"

\* The handler left the transfers as they were and sent nothing.
TransferUntouched(S) ==
  /\ S.incomingFiles = incomingFiles
  /\ S.receiving = receiving
  /\ S.incoming = incoming
  /\ S.wireOut = <<>>

\* C28: while an incoming transfer is current, the close of the control
\* channel, or of the base channel of the transfer's stripes, cancels the
\* transfer on this side and sends no file-cancel; the close of a stripe
\* other than the base cancels nothing.
C28_ChannelClose ==
  receiving # "null" =>
     /\ dcState = "open" =>
           CancelledLocally(
             onPeerStatus([AppState EXCEPT !.dcOpen = FALSE], "disconnected"), receiving)
     /\ \A i \in fileRxChannels :
           LET S == onFileChannelClosed([AppState EXCEPT !.fileRxChannels = @ \ {i}], i)
           IN IF i = 0 THEN CancelledLocally(S, receiving)
              ELSE TransferUntouched(S) /\ S.fileRxChannels = fileRxChannels \ {i}

\* X is in the middle of its frames, with the base channel and a stripe open.
C28_Witness ==
  /\ receiving = "X"
  /\ incoming["X"].expectedSeq = 1
  /\ fileRxChannels = RxStripes
  /\ dcState = "open"
  /\ CancelledLocally(onFileChannelClosed(AppState, 0), "X")

(***************************************************************************)
(* C29                                                                     *)
(***************************************************************************)
LiveDc(R, h) == h # NoDc /\ R.dcs[h].readyState \in {"open", "connecting"}
LiveUnder(R, id) == {h \in DOMAIN R.dcs : R.dcs[h].label = id /\ LiveDc(R, h)}
StreamIdsOf(count) == {fileStreamIdForIndex(fileTxId, i) : i \in 0..(count - 1)}
PrefixMatches(id, base) == id = base \/ StartsWith(id, base \o <<":">>)

\* every open or opening channel is the one the map holds under its id, so
\* there is at most one per id
C29_OnePerId ==
  \A id \in ChanIds :
     /\ Cardinality(LiveUnder(Registry, id)) <= 1
     /\ \A h \in LiveUnder(Registry, id) : fileChannels[id] = h

\* ensureFileTxChannels keeps the channel of every id that has an open or
\* opening one, makes exactly one channel for each id that has none, and
\* changes nothing when it is called again
C29_Idempotent ==
  \A count \in 1..MaxStripes :
     LET R1 == ensureFileTxChannels(Registry, count)
         reused == {id \in StreamIdsOf(count) : LiveDc(Registry, fileChannels[id])}
     IN /\ \A id \in reused : R1.fileChannels[id] = fileChannels[id]
        /\ \A h \in DOMAIN dcs :
              LiveDc(Registry, h) /\ fileChannels[dcs[h].label] = h
                => R1.dcs[h] = dcs[h]
        /\ Len(R1.dcs) = Len(dcs) + Cardinality(StreamIdsOf(count) \ reused)
        /\ \A id \in StreamIdsOf(count) : Cardinality(LiveUnder(R1, id)) = 1
        /\ ensureFileTxChannels(R1, count) = R1

\* closeFileChannelsByPrefix(prefix) closes and removes the channels whose id
\* is the trimmed prefix or begins with it and a colon, and no other
C29_ClosePrefix ==
  \A prefix \in Prefixes :
     LET base == Trim(prefix)
         R1 == closeFileChannelsByPrefix(Registry, prefix)
     IN /\ Len(R1.dcs) = Len(dcs)
        /\ \A id \in ChanIds :
              IF base # <<>> /\ PrefixMatches(id, base)
              THEN /\ R1.fileChannels[id] = NoDc
                   /\ fileChannels[id] # NoDc
                        => R1.dcs[fileChannels[id]].readyState = "closed"
              ELSE /\ R1.fileChannels[id] = fileChannels[id]
                   /\ fileChannels[id] # NoDc
                        => R1.dcs[fileChannels[id]] = dcs[fileChannels[id]]

\* C29: ensureFileTxChannels reuses a channel that is open or opening under
\* an id and never makes a second one, so at most one channel is live per
\* id; closeFileChannelsByPrefix(base) closes and removes exactly the
\* channels whose id is base or begins with base and a colon, and leaves
\* every other channel as it was.
C29_Registry == C29_OnePerId /\ C29_Idempotent /\ C29_ClosePrefix

\* a live channel under the sender's base id, one under its stripe, and one
\* under an id that shares the base's letters without the colon
C29_Witness ==
  /\ LiveDc(Registry, fileChannels[fileTxId])
  /\ fileChannels[<<"a", "b">>] # NoDc
  /\ LiveDc(Registry, fileChannels[<<"a", "b">>])
  /\ \E h \in DOMAIN dcs : dcs[h].readyState = "closed"

(***************************************************************************)
(* C30                                                                     *)
(***************************************************************************)
ExpectedType == IF hsRole = "sender" THEN TypeAnswer ELSE TypeOffer
DecodesAs(code, t) ==
  LET d == decodeSignal(code, cdHasComp) IN d.kind = "ok" /\ d.type = t
DescOf(code) ==
  LET d == decodeSignal(code, cdHasComp) IN [type |-> d.type, sdp |-> d.sdp]
PeerSession == <<pcRemote, hbVars, regVars>>

\* what was handed to the peer, and what the peer session holds, came from a
\* signal of the role's type
C30_State ==
  /\ \A i \in DOMAIN hsPeerCalls : DecodesAs(hsPeerCalls[i], ExpectedType)
  /\ pcRemote # NoDesc => pcRemote.type = ExpectedType
  /\ lastAnswer # <<>> => hsRole = "sender" /\ DecodesAs(lastAnswer, TypeAnswer)
  /\ lastOffer # <<>> => hsRole = "receiver" /\ DecodesAs(lastOffer, TypeOffer)

C30_Step ==
  \* a code is handed to peer.applyAnswer / peer.createAnswer only when it
  \* decodes to the role's type and differs from the last one handed over
  /\ Len(hsPeerCalls') > Len(hsPeerCalls) =>
       LET c == hsPeerCalls'[Len(hsPeerCalls')] IN
         /\ hsPeerCalls' = Append(hsPeerCalls, c)
         /\ \E i \in DOMAIN hsDecoding : hsDecoding[i] = c
         /\ DecodesAs(c, ExpectedType)
         /\ IF hsRole = "sender"
            THEN c # lastAnswer /\ lastAnswer' = c /\ lastOffer' = lastOffer
            ELSE c # lastOffer /\ lastOffer' = c /\ lastAnswer' = lastAnswer
  \* a signal that does not decode to the role's type changes nothing but
  \* the handler's own end
  /\ \A i \in DOMAIN hsDecoding :
       hsDecoding' = RemoveAt(hsDecoding, i)
         /\ ~DecodesAs(hsDecoding[i], ExpectedType)
       => /\ UNCHANGED <<hsPeerCalls, lastOffer, lastAnswer, PeerSession>>
          /\ hsSent' = <<>>
  \* the peer session changes only in the completion of a call made for a
  \* signal of the role's type, and takes that signal's description
  /\ PeerSession' # PeerSession =>
       \E i \in DOMAIN hsPeerCalls :
          /\ hsPeerCalls' = RemoveAt(hsPeerCalls, i)
          /\ DecodesAs(hsPeerCalls[i], ExpectedType)
          /\ pcRemote' \in {pcRemote, NoDesc, DescOf(hsPeerCalls[i])}
  \* the receiver sends a signal only as the answer to such an offer
  /\ hsRole = "receiver" /\ hsSent' # <<>> /\ hsSent' # hsSent =>
       /\ \E i \in DOMAIN hsPeerCalls :
             /\ hsPeerCalls' = RemoveAt(hsPeerCalls, i)
             /\ DecodesAs(hsPeerCalls[i], TypeOffer)
       /\ DecodesAs(hsSent'[1].content, TypeAnswer)

\* C30: the sender hands a bus signal to the peer session only when it
\* decodes to type answer and its content differs from the last answer handed
\* over, the receiver computes an answer only for a signal that decodes to
\* type offer, and a signal of any other type, or one that does not decode,
\* leaves the peer session as it was.
C30_Handshake == []C30_State /\ [][C30_Step]_vars

\* the sender has applied an answer, has since taken the same answer padded
\* with a blank as a new one, and its own offer is back from the bus
C30_Witness ==
  /\ hsRole = "sender"
  /\ pcRemote # NoDesc
  /\ lastAnswer = <<" ">> \o CodeOf(TypeAnswer, <<"\n">>)
  /\ \E i \in DOMAIN hsDecoding : DecodesAs(hsDecoding[i], TypeOffer)

\* the receiver has answered one offer and holds an answer and a second offer
C30_WitnessReceiver ==
  /\ hsRole = "receiver"
  /\ pcRemote # NoDesc
  /\ hsSent # <<>>
  /\ \E i \in DOMAIN hsDecoding : DecodesAs(hsDecoding[i], TypeAnswer)
  /\ \E i \in DOMAIN hsDecoding : hsDecoding[i] # lastOffer /\ DecodesAs(hsDecoding[i], TypeOffer)

(***************************************************************************)
(* C31  cancelIncomingFile                                                 *)
(***************************************************************************)
\* What cancelIncomingFile(id) leaves behind for a transfer it knows.
C31_Cancelled(S, T, id) ==
  /\ T.incoming[id].cancelled
  /\ T.incoming[id].writer = "null"
  /\ T.incoming[id].writeQueue = <<>>
  /\ T.incoming[id].writeQueueStart = 0
  /\ T.incoming[id].writeQueuedBytes = 0
  /\ ~T.incoming[id].acceptResendTimer
  /\ id \notin T.incomingFiles
  /\ T.receiving # id
  /\ T.incoming[id].commits = S.incoming[id].commits
  /\ T.incoming[id].pendingChunks = S.incoming[id].pendingChunks

C31_State ==
  /\ \A id \in incomingFiles, notifyPeer \in BOOLEAN :
        C31_Cancelled(AppState, cancelIncomingFile(AppState, id, notifyPeer), id)
  /\ \A id \in RxIds : incoming[id].cancelled =>
        /\ receiving # id
        /\ id \notin incomingFiles
        /\ incoming[id].pendingChunks # {} =>
              incoming[id].writePromise \/ chunkAwait[1] = id

\* A cancelled state object takes no further frame; a later file-meta with
\* the same id makes a new object.
C31_Step ==
  \A id \in RxIds : incoming[id].cancelled =>
    IF incoming'[id].cancelled
    THEN /\ incoming'[id].commits = incoming[id].commits
         /\ incoming'[id].received = incoming[id].received
         /\ incoming'[id].expectedSeq = incoming[id].expectedSeq
         /\ incoming'[id].pendingChunks = incoming[id].pendingChunks
         /\ incoming'[id].writeQueue = <<>>
    ELSE incoming'[id].commits = <<>>

\* C31: cancelling an incoming transfer marks it cancelled, drops its sink,
\* empties its write queue, stops its accept-resend timer and takes it out of
\* incomingFiles and of the receiving slot; the map of frames that arrived
\* ahead of order is not emptied, it goes with the state object, which stays
\* referenced only while a write or the final flush is still awaited; no
\* frame is committed to or buffered for a cancelled transfer.
C31_CancelIncoming == []C31_State /\ [][C31_Step]_vars

\* A transfer that had committed a frame was cancelled while its write was in
\* flight.
C31_Witness ==
  \E id \in RxIds :
    /\ incoming[id].cancelled
    /\ incoming[id].commits # <<>>
    /\ incoming[id].writePromise
    /\ receiving = "null"

\* C31 as stated: a cancelled transfer holds no pending buffers.
C31_AsStated == \A id \in RxIds : incoming[id].cancelled => incoming[id].pendingChunks = {}

(***************************************************************************)
(* C32  no stripe channel outlives a cancelled send                        *)
(***************************************************************************)
\* The call doSendFile(id) was cancelled by cancelOutgoingFile and has not
\* ended yet.
C32_CancelPending(id) ==
  /\ sendClosure[id].pc # "none"
  /\ sendClosure[id].aborted
  /\ outgoingTransfers[id] # "none"

C32_Ends(id) == sendClosure'[id].pc = "none" \/ ~sendClosure'[id].aborted

\* cancelOutgoingFile closes every stripe channel in the step it runs in.
C32_AtCancel ==
  \A id \in TxIds, notifyPeer \in BOOLEAN :
    outgoingTransfers[id] # "none" =>
      cancelOutgoingFile(AppState, id, notifyPeer).fileTxChannels = 0

\* C32: when the call of a cancelled outgoing transfer ends, no stripe
\* channel is open, whatever await the cancel found the call parked at.
C32_ClosedAtSettle ==
  [][\A id \in TxIds : C32_CancelPending(id) /\ C32_Ends(id) => fileTxChannels' = 0]_vars

\* The same for a cancel that found the call past the capabilities wait.
C32_PastCaps ==
  [][\A id \in TxIds :
       C32_CancelPending(id) /\ sendClosure[id].pc # "chan" /\ C32_Ends(id)
         => fileTxChannels' = 0]_vars

(***************************************************************************)
(* C33  frames only after the accept of the same attempt                   *)
(***************************************************************************)
\* The step sends the file-meta of an attempt of id.
C33_SendsMeta(id) == <<"file-meta", id>> \in Range(wireOut')

\* The step handles a file-accept for id (it is acknowledged).
C33_HandlesAccept(id) == <<"file-accept-ack", id>> \in Range(wireOut')

\* C33: the step that sends the file-meta of an attempt writes no frame of
\* it, and the first frame of an attempt is written in a step that handles a
\* file-accept for it or in a later step of the pump.
C33_FramesAfterAccept ==
  [][\A id \in TxIds :
       /\ C33_SendsMeta(id) => FramesOf(wireOut', id) = {}
       /\ FramesOf(wireOut', id) # {} /\ sendClosure[id].pc = "accept"
            => C33_HandlesAccept(id)]_vars

\* An entry of the early-accept set that outlived its attempt is gone before
\* the file is sent again.
C33_LeftOverDropped ==
  [][\A id \in TxIds :
       id \in fileAcceptEarly /\ outgoingTransfers[id] = "none"
         => outgoingTransfers'[id] = "none"]_vars

\* A file-accept met while a call is in its accept wait, and only that,
\* starts the pump: the claim without the early-accept set.
C33_WaiterOnly ==
  [][\A id \in TxIds :
       FramesOf(wireOut', id) # {} /\ sendClosure[id].pc = "accept"
         => C33_HandlesAccept(id)]_vars

(***************************************************************************)
(* C34  file-done only for a transfer that was written                     *)
(***************************************************************************)
C34_SendsDone(id) == <<"file-done", id>> \in Range(wireOut')

\* Every committed chunk with bytes went through writer.write.
C34_AllWritten(r) == r.inFlight = <<>> /\ r.written = CommittedItems(r)

\* C34: a step sends file-done for an id only if the transfer is not
\* cancelled and every committed chunk was written to the sink.
C34_DoneOnlyIfWritten ==
  [][\A id \in RxIds :
       C34_SendsDone(id) => ~incoming'[id].cancelled /\ C34_AllWritten(incoming'[id])]_vars

\* The file-done of a transfer that is not cancelled follows the last write.
C34_DoneOfLive ==
  [][\A id \in RxIds :
       C34_SendsDone(id) /\ ~incoming'[id].cancelled => C34_AllWritten(incoming'[id])]_vars

\* No handler sends file-done for a transfer that was cancelled before the
\* final flush began.
C34_DoneOfCancelled ==
  [][\A id \in RxIds :
       C34_SendsDone(id) /\ incoming'[id].cancelled => chunkAwait[1] = id]_vars

(***************************************************************************)
(* C35  frames of one file and the sink of another                         *)
(***************************************************************************)
\* The step handed a frame the sending app wrote for one file to onData
\* while the receiving slot held the transfer of another file.
C35_ForeignFrame ==
  /\ lastFrame' # <<>>
  /\ receiving # "null"
  /\ lastFrame'[2] # receiving

\* C35: a frame written for file A that reaches the file-chunk branch while
\* the receiving slot holds another transfer B is dropped: it is neither
\* committed to B's sink nor kept among B's pending frames.
C35_NoCrossCommit ==
  [][C35_ForeignFrame =>
       /\ incoming'[receiving].commits = incoming[receiving].commits
       /\ incoming'[receiving].pendingChunks = incoming[receiving].pendingChunks]_vars

\* A frame that finds the receiving slot empty, or its transfer not accepted,
\* is committed nowhere and answered with nothing.
C35_DroppedWhenIdle ==
  [][(lastFrame' # <<>> /\ (receiving = "null" \/ ~incoming[receiving].accepted))
       => /\ \A id \in TxIds : Len(incoming'[id].commits) <= Len(incoming[id].commits)
          /\ receiving' = receiving
          /\ toTx' = toTx]_vars

(***************************************************************************)
(* C38  the file-meta of the next file                                     *)
(***************************************************************************)
\* The step is the receiving app handling the file-meta of file b, which the
\* sending app announced after it had written the last frame of file a.
C38_HandlesMetaAfter(a, b) ==
  /\ toRx # <<>>
  /\ Head(toRx) = <<"file-meta", b>>
  /\ toRx' = Tail(toRx)
  /\ a \in sentFiles
  /\ sendClosure[a].pc = "none"

\* C38: when B is announced right after the last frame of A was written,
\* handling B's file-meta creates B's incoming transfer.
C38_MetaCreatesTransfer ==
  [][\A a, b \in TxIds :
       a # b /\ C38_HandlesMetaAfter(a, b) => b \in incomingFiles']_vars

\* A file-meta that finds the receiving slot empty creates the transfer and
\* takes the slot.
C38_MetaWhenIdle ==
  [][\A b \in TxIds :
       (toRx # <<>> /\ Head(toRx) = <<"file-meta", b>> /\ toRx' = Tail(toRx)
          /\ receiving = "null")
       => b \in incomingFiles' /\ receiving' = b]_vars

(***************************************************************************)
(* C36  file-accept only for a live transfer                               *)
(***************************************************************************)
\* The acceptFile(id) call was parked at the save-file picker when its
\* transfer was cancelled.
C36_Orphaned(id) == id \in acceptPending /\ incoming[id].cancelled

\* C36: an acceptFile call that was waiting for the save location when its
\* transfer was cancelled sends no file-accept, marks the transfer neither
\* accepted nor gives it a sink or a resend timer, and every file-accept is
\* sent for a transfer that is in incomingFiles and not cancelled.
C36_AcceptOnlyLive ==
  [][\A id \in RxIds :
       /\ C36_Orphaned(id) =>
            /\ ~AcceptSentFor(wireOut', id)
            /\ ~incoming'[id].accepted
            /\ incoming'[id].writer = "null"
            /\ ~incoming'[id].acceptResendTimer
       /\ AcceptSentFor(wireOut', id) /\ id \notin acceptPending =>
            id \in incomingFiles /\ ~incoming[id].cancelled]_vars

\* Outside a pending picker, file-accept is sent only for a live transfer.
C36_DirectOnly ==
  [][\A id \in RxIds :
       AcceptSentFor(wireOut', id) /\ id \notin acceptPending =>
         id \in incomingFiles /\ ~incoming[id].cancelled]_vars

(***************************************************************************)
(* C39  cancelling a queued job                                            *)
(***************************************************************************)
\* The file-meta, file-cancel and frames a handler sent about id.
C39_SentFor(out, id) ==
  {i \in DOMAIN out : out[i][1] \in {"file-meta", "file-cancel", "frame"} /\ out[i][2] = id}

\* What cancelOutgoingFile(id) makes of a job that waits in the queue.
C39_Cancelled(S, T, id) ==
  /\ T.settled = {<<id, "AbortError">>}
  /\ T.wireOut = <<>>
  /\ T.fileTxChannels = S.fileTxChannels
  /\ T.outgoingQueue = SelectSeq(S.outgoingQueue, LAMBDA x : x # id)
  /\ T.outgoingQueuedIds = S.outgoingQueuedIds \ {id}
  /\ id \notin T.outgoingCancelledIds
  /\ T.outgoingRunning = S.outgoingRunning
  /\ T.outgoingTransfers = S.outgoingTransfers
  /\ T.sendClosure = S.sendClosure
  /\ T.fileAcceptWaiters = S.fileAcceptWaiters
  /\ T.fileDoneWaiters = S.fileDoneWaiters
  /\ T.stagedFiles = S.stagedFiles
  /\ id \in T.stagedFiles
  \* enqueueOutgoingFile(id) takes the file again
  /\ enqueueOutgoingFile(T, id).outgoingQueue = Append(T.outgoingQueue, id)

C39_State ==
  \A id \in QueueIds, notifyPeer \in BOOLEAN :
    id \in Range(outgoingQueue) =>
      C39_Cancelled(AppState, cancelOutgoingFile(AppState, id, notifyPeer), id)

\* Nothing is sent about a file whose doSendFile call is not running, a call
\* starts only for a job that is in the queue or is enqueued by the step, and
\* only a running call opens file channels.
C39_Step ==
  /\ fileTxChannels' > fileTxChannels =>
       \E id \in QueueIds : sendClosure[id].pc \notin {"none", "chan-closed"}
  /\ \A id \in QueueIds :
    sendClosure[id].pc = "none" =>
      /\ C39_SentFor(wireOut', id) = {}
      /\ sendClosure'[id].pc # "none" =>
           \/ id \in Range(outgoingQueue)
           \/ id \notin outgoingQueuedIds /\ id \in outgoingQueuedIds'

\* C39: cancelling a job that waits in the outgoing queue rejects its promise
\* with the cancellation error, sends nothing and opens no channel, leaves
\* the active transfer and the other queued jobs as they were, keeps the file
\* staged so that it can be enqueued again, and the cancelled job never
\* starts: no step sends anything about a file whose call is not running.
C39_CancelQueued == []C39_State /\ [][C39_Step]_vars

\* B was cancelled out of the queue while A is being sent: X still waits
\* behind it, B is staged and settled with the cancellation error.
C39_Witness ==
  /\ settled = {<<"B", "AbortError">>}
  /\ outgoingQueue = <<"X">>
  /\ outgoingTransfers["A"] = "meta-sent"
  /\ sendClosure["A"].pc = "yield"
  /\ "B" \in stagedFiles
  /\ "B" \notin outgoingQueuedIds
  /\ sendClosure["B"].pc = "none"

(***************************************************************************)
(* C37  every queued job settles, the queue runner returns to idle         *)
(***************************************************************************)
\* A step that puts a new job in the outgoing queue.
C37_Enqueues ==
  \E id \in TxIds : id \notin outgoingQueuedIds /\ id \in outgoingQueuedIds'

\* Every job in the queue settles: it leaves outgoingQueuedIds in the step
\* that resolves or rejects its promise.
C37_Settles ==
  \A id \in TxIds : (id \in outgoingQueuedIds) ~> (id \notin outgoingQueuedIds)

\* Once no new job is enqueued any more the runner stops and stays idle.
C37_Idle == (<>[][~C37_Enqueues]_vars) => <>[](~outgoingRunning)

\* C37: under fairness of the timers and channel events every job placed in
\* the outgoing queue eventually settles, and once the user stops adding
\* jobs the queue runner returns to idle, whatever the peer sends or does
\* not send and whether or not the connection is lost.
C37_Terminates == C37_Settles /\ C37_Idle

\* The peer never sent file-done: B, the last job, is rejected by the timer
\* of waitForFileDone and the runner is idle.
C37_Witness ==
  /\ settled = {<<"B", "done-timeout">>}
  /\ outgoingQueuedIds = {}
  /\ ~outgoingRunning
  /\ "A" \in sentFiles

====
